---- MODULE Spec2Model ----
(***************************************************************************)
(* A model of pyamf's AMF3 codec (src/pyamf/amf3.py): the variable-length  *)
(* 29-bit integer codec, the Context with its reference tables, and the    *)
(* Encoder and Decoder handlers that work against it.                      *)
(*                                                                         *)
(* Bytes are integers 0..255, a string is the sequence of its bytes, a     *)
(* stream is a sequence of bytes.  Positions in a stream are 1-based: pos  *)
(* is the index of the next byte to read.                                  *)
(***************************************************************************)
EXTENDS Integers, Sequences, FiniteSets, TLC

VARIABLES
    u29,      \* the integer codec exercised on one input (specification SpecInt)
    heap,     \* the host objects, by identity: heap[id] is the object with handle id
    ctx,      \* the Context shared by the Encoder and the Decoder
    stream,   \* the bytes the Encoder has written
    opts,     \* the options of the Encoder and the Decoder
    last,     \* what the last operation was given and what it did
    ops       \* number of operations done so far

vars == <<u29, heap, ctx, stream, opts, last, ops>>

(***************************************************************************)
(* Program constants                                                       *)
(***************************************************************************)
REFERENCE_BIT == 1
MAX_29B_INT == 268435455
MIN_29B_INT == 0 - 268435456

(***************************************************************************)
(* Bit operations on non-negative integers                                 *)
(***************************************************************************)
Shr(n, k) == n \div (2 ^ k)
Shl(n, k) == n * (2 ^ k)
\* 0x80 | x, for a byte x
Or80(x) == IF x >= 128 THEN x ELSE x + 128
\* bit k of n
Bit(n, k) == (n \div (2 ^ k)) % 2

(***************************************************************************)
(* encode_int: the bytes of n, or OverflowError (ok = FALSE).              *)
(* ENCODED_INT_CACHE is never filled by this module, so every call takes   *)
(* the computing path.  n1 is n made unsigned, n2 is n1 after "n >>= 1"    *)
(* when n1 > 0x1fffff.                                                     *)
(***************************************************************************)
encode_int_short(n1, n2) ==
    \* a slip in the length thresholds (>= for >)
    (IF n1 > 2097151 THEN <<Or80(Shr(n2, 21) % 256)>> ELSE <<>>)
    \o (IF n2 >= 16383 THEN <<Or80(Shr(n2, 14) % 256)>> ELSE <<>>)
    \o (IF n2 >= 127 THEN <<Or80(Shr(n2, 7) % 256)>> ELSE <<>>)
    \o (IF n1 > 2097151 THEN <<n1 % 256>> ELSE <<n1 % 128>>)

encode_int_bytes(n1, n2) ==
    (IF n1 > 2097151 THEN <<Or80(Shr(n2, 21) % 256)>> ELSE <<>>)
    \o (IF n2 > 16383 THEN <<Or80(Shr(n2, 14) % 256)>> ELSE <<>>)
    \o (IF n2 > 127 THEN <<Or80(Shr(n2, 7) % 256)>> ELSE <<>>)
    \o (IF n1 > 2097151 THEN <<n1 % 256>> ELSE <<n1 % 128>>)

encode_int(n) ==
    LET n1 == IF n < 0 THEN n + 536870912 ELSE n
    IN  IF n < MIN_29B_INT \/ n > MAX_29B_INT
        THEN [ok |-> FALSE, bytes |-> <<>>]
        ELSE [ok |-> TRUE,
              bytes |-> encode_int_bytes(n1, IF n1 > 2097151 THEN Shr(n1, 1) ELSE n1)]

(***************************************************************************)
(* decode_int: reads a U29 from stream s at pos.  ok = FALSE is the read   *)
(* past the end of the stream.  pos of the result is the next unread byte. *)
(***************************************************************************)
RECURSIVE decode_int_loop(_, _, _, _, _)
decode_int_loop(s, pos, n, result, b) ==
    \* b was read from pos - 1; the while loop of decode_int
    IF b >= 128 /\ n < 3
    THEN IF pos > Len(s)
         THEN [ok |-> FALSE, n |-> n, result |-> result, b |-> b, pos |-> pos]
         ELSE decode_int_loop(s, pos + 1, n + 1, Shl(result, 7) + (b % 128), s[pos])
    ELSE [ok |-> TRUE, n |-> n, result |-> result, b |-> b, pos |-> pos]

decode_int_nosign(result, signed) ==
    \* the sign extension of the 4-byte form forgotten
    result

\* "if result & 0x10000000 != 0: ..." of the 4-byte form
decode_int_sign(result, signed) ==
    IF Bit(result, 28) # 0
    THEN IF signed THEN result - 536870912 ELSE Shl(result, 1) + 1
    ELSE result

\* w is what the while loop left
decode_int(s, pos, signed) ==
    LET w == decode_int_loop(s, pos + 1, 0, 0, s[pos])
    IN  IF pos > Len(s)
        THEN [ok |-> FALSE, value |-> 0, pos |-> pos]
        ELSE [ok |-> w.ok,
              value |-> IF ~w.ok THEN 0
                        ELSE IF w.n < 3 THEN Shl(w.result, 7) + w.b
                        ELSE decode_int_sign(Shl(w.result, 8) + w.b, signed),
              pos |-> w.pos]

(***************************************************************************)
(* Type markers and object encodings                                       *)
(***************************************************************************)
TYPE_UNDEFINED == 0
TYPE_NULL == 1
TYPE_BOOL_FALSE == 2
TYPE_BOOL_TRUE == 3
TYPE_INTEGER == 4
TYPE_NUMBER == 5
TYPE_STRING == 6
TYPE_XML == 7
TYPE_DATE == 8
TYPE_ARRAY == 9
TYPE_OBJECT == 10
TYPE_XMLSTRING == 11
TYPE_BYTEARRAY == 12

ENC_STATIC == 0
ENC_EXTERNAL == 1
ENC_DYNAMIC == 2
ENC_PROXY == 3

(***************************************************************************)
(* Host values.  A value is a record [t, n, s]: t its kind, n its integer  *)
(* payload (the integer, the integral value of a float, or the handle of a *)
(* heap object), s its byte payload (the bytes of a string).               *)
(***************************************************************************)
VUndefined == [t |-> "undefined", n |-> 0, s |-> <<>>]
VNull == [t |-> "null", n |-> 0, s |-> <<>>]
VBool(b) == [t |-> IF b THEN "true" ELSE "false", n |-> 0, s |-> <<>>]
VInt(n) == [t |-> "int", n |-> n, s |-> <<>>]
\* an integer of magnitude 2^1024 or more, which no double holds: n is its
\* sign
VLong(sign) == [t |-> "long", n |-> sign, s |-> <<>>]
VNum(n) == [t |-> "number", n |-> n, s |-> <<>>]
VStr(s) == [t |-> "str", n |-> 0, s |-> s]
VObj(id) == [t |-> "obj", n |-> id, s |-> <<>>]

(***************************************************************************)
(* Heap objects.  An object is a record [k, items, keys, n, s, cls]:       *)
(*   list       items                                                      *)
(*   dict       keys (in the order of n.keys()) and items (their values)   *)
(*   date       n, milliseconds since the epoch                            *)
(*   time       a datetime.time                                            *)
(*   bytearray  s, the bytes str(n) gives                                  *)
(*   xml        s, the bytes util.ET.tostring(n, 'utf-8') gives            *)
(*   object     cls its class, keys and items its encodable attributes     *)
(***************************************************************************)
ObjBlank == [k |-> "none", items |-> <<>>, keys |-> <<>>, n |-> 0, s |-> <<>>, cls |-> 0]
OList(items) == [ObjBlank EXCEPT !.k = "list", !.items = items]
ODict(keys, items) == [ObjBlank EXCEPT !.k = "dict", !.keys = keys, !.items = items]
ODate(ms) == [ObjBlank EXCEPT !.k = "date", !.n = ms]
OTime == [ObjBlank EXCEPT !.k = "time"]
OBytes(s) == [ObjBlank EXCEPT !.k = "bytearray", !.s = s]
OXml(s) == [ObjBlank EXCEPT !.k = "xml", !.s = s]
OInst(cls, keys, items) ==
    [ObjBlank EXCEPT !.k = "object", !.cls = cls, !.keys = keys, !.items = items]

(***************************************************************************)
(* IEEE-754 doubles of integral values, big-endian (stream.write_double,   *)
(* stream.read_double).  The 52 mantissa bits are taken one by one.        *)
(***************************************************************************)
RECURSIVE Log2(_)
Log2(a) == IF a <= 1 THEN 0 ELSE 1 + Log2(a \div 2)

\* the number whose bits are the cnt mantissa bits (of the 52) of the
\* positive integer a from bit lo upwards
RECURSIVE MantBits(_, _, _)
MantBits(a, lo, cnt) ==
    LET e == Log2(a)
        m == a - 2 ^ e
    IN  IF cnt = 0 THEN 0
        ELSE (IF lo >= 52 - e THEN Bit(m, lo - (52 - e)) ELSE 0)
             + 2 * MantBits(a, lo + 1, cnt - 1)

write_double(x) ==
    IF x = 0 THEN <<0, 0, 0, 0, 0, 0, 0, 0>>
    ELSE LET a == IF x < 0 THEN 0 - x ELSE x
             E == Log2(a) + 1023
             sign == IF x < 0 THEN 128 ELSE 0
         IN  <<sign + (E \div 16), (E % 16) * 16 + MantBits(a, 48, 4),
               MantBits(a, 40, 8), MantBits(a, 32, 8), MantBits(a, 24, 8),
               MantBits(a, 16, 8), MantBits(a, 8, 8), MantBits(a, 0, 8)>>

\* the integer a big-endian double stands for; ok = FALSE when it is not an
\* integer of magnitude below 2^31
read_double(b) ==
    LET E == (b[1] % 128) * 16 + (b[2] \div 16)
        e == E - 1023
        neg == b[1] >= 128
        mant == <<b[2] % 16, b[3], b[4], b[5], b[6], b[7], b[8]>>
        zero == E = 0 /\ \A i \in 1..7 : mant[i] = 0
        \* the mantissa bits above bit 20 as a number: bits 51..21
        hi == ((((mant[1] * 256 + mant[2]) * 256 + mant[3]) * 256 + mant[4]) * 8)
              + (mant[5] \div 32)
        loZero == mant[5] % 32 = 0 /\ mant[6] = 0 /\ mant[7] = 0
        \* hi holds 31 bits; the value needs its top e bits, the rest must be 0
        integral == /\ e >= 0 /\ e <= 30 /\ loZero
                    /\ IF e = 0 THEN hi = 0 ELSE hi % (2 ^ (31 - e)) = 0
        a == IF e = 0 THEN 1 ELSE 2 ^ e + hi \div (2 ^ (31 - e))
    IN  IF zero THEN [ok |-> TRUE, value |-> 0]
        ELSE IF integral THEN [ok |-> TRUE, value |-> IF neg THEN 0 - a ELSE a]
        ELSE [ok |-> FALSE, value |-> 0]

(***************************************************************************)
(* The alias registry (pyamf.get_class_alias), an external collaborator:   *)
(* a fixed table of host classes.  An alias is a record                    *)
(* [klass, alias, external, dynamic, anonymous, static_attrs,              *)
(*  encodable_properties].                                                 *)
(***************************************************************************)
K_STATIC == 1        \* registered as "A": sealed, static attribute x
K_ASOBJECT == 2      \* pyamf.ASObject: anonymous, dynamic
K_EXTERNAL == 3      \* registered as "E": externalizable, static attribute x
K_DYNAMIC == 4       \* registered as "B": dynamic, static attribute x
K_TYPED == 5         \* pyamf.TypedObject, the stand-in for unknown aliases
K_ARRAYCOLLECTION == 6   \* flex ArrayCollection, the proxy of a list
K_OBJECTPROXY == 7       \* flex ObjectProxy, the proxy of a dict or object

Klasses == {K_STATIC, K_ASOBJECT, K_EXTERNAL, K_DYNAMIC, K_TYPED,
            K_ARRAYCOLLECTION, K_OBJECTPROXY}

S_x == <<120>>
S_y == <<121>>
S_a == <<97>>
S_b == <<98>>

MkAlias(klass, name, external, dynamic, anonymous, static, encodable) ==
    [klass |-> klass, alias |-> name, external |-> external, dynamic |-> dynamic,
     anonymous |-> anonymous, static_attrs |-> static,
     encodable_properties |-> encodable]

Registry ==
    [k \in Klasses |->
        CASE k = K_STATIC -> MkAlias(k, <<65>>, FALSE, FALSE, FALSE, <<S_x>>, <<S_x>>)
          [] k = K_ASOBJECT -> MkAlias(k, <<>>, FALSE, TRUE, TRUE, <<>>, <<>>)
          [] k = K_EXTERNAL -> MkAlias(k, <<69>>, TRUE, FALSE, FALSE, <<S_x>>, <<S_x>>)
          [] k = K_DYNAMIC -> MkAlias(k, <<66>>, FALSE, TRUE, FALSE, <<S_x>>, <<S_x>>)
          [] k = K_TYPED -> MkAlias(k, <<>>, FALSE, TRUE, TRUE, <<>>, <<>>)
          [] k = K_ARRAYCOLLECTION -> MkAlias(k, <<65, 67>>, TRUE, FALSE, FALSE, <<>>, <<>>)
          [] k = K_OBJECTPROXY -> MkAlias(k, <<79, 80>>, TRUE, FALSE, FALSE, <<>>, <<>>)]

(***************************************************************************)
(* ClassDefinition.  reference is None, the integer Context.addClass sets  *)
(* or the bytes Encoder.writeObject replaces it with.                      *)
(***************************************************************************)
RefNone == [k |-> "none", n |-> 0, s |-> <<>>]
RefInt(n) == [k |-> "int", n |-> n, s |-> <<>>]
RefBytes(s) == [k |-> "bytes", n |-> 0, s |-> s]

\* the test for Static comes first
ClassDefinition_static_first(alias) ==
    [alias |-> alias,
     reference |-> RefNone,
     attr_len |-> IF alias.static_attrs # <<>> THEN Len(alias.static_attrs) ELSE 0,
     encoding |-> IF ~alias.dynamic /\ alias.static_attrs = alias.encodable_properties
                  THEN ENC_STATIC
                  ELSE IF alias.external THEN ENC_EXTERNAL
                       ELSE ENC_DYNAMIC,
     has_static_properties |-> FALSE,
     static_properties |-> <<>>]

ClassDefinition(alias) ==
    [alias |-> alias,
     reference |-> RefNone,
     attr_len |-> IF alias.static_attrs # <<>> THEN Len(alias.static_attrs) ELSE 0,
     encoding |-> IF alias.external THEN ENC_EXTERNAL
                  ELSE IF ~alias.dynamic /\ alias.static_attrs = alias.encodable_properties
                       THEN ENC_STATIC
                       ELSE ENC_DYNAMIC,
     \* set by Decoder._getClassDefinition only (has_static_properties tells)
     has_static_properties |-> FALSE,
     static_properties |-> <<>>]

(***************************************************************************)
(* Context.  objects, strings and legacy_xml are IndexedCollections (their *)
(* list); class_ref maps a reference index to its ClassDefinition and      *)
(* classes maps a host class to the key of its definition in class_ref     *)
(* (the two dicts hold the same object).                                   *)
(***************************************************************************)
EmptyFn == [x \in {} |-> 0]

NewContext ==
    [objects |-> <<>>, strings |-> <<>>, classes |-> EmptyFn, class_ref |-> EmptyFn,
     legacy_xml |-> <<>>, class_idx |-> 0]

\* Context.clear
ContextClear(c) ==
    [c EXCEPT !.objects = <<>>, !.strings = <<>>, !.classes = EmptyFn,
              !.class_ref = EmptyFn, !.legacy_xml = <<>>, !.class_idx = 0]

\* IndexedCollection.getReferenceTo: the index of x, or -1; of several equal
\* entries, that of the one appended last
getReferenceTo(list, x) ==
    LET hits == {i \in 1..Len(list) : list[i] = x}
    IN  IF hits = {} THEN 0 - 1 ELSE (CHOOSE i \in hits : \A j \in hits : j <= i) - 1

\* IndexedCollection.getByReference: found = FALSE stands for None
getByReference(list, ref) ==
    IF ref >= 0 /\ ref < Len(list)
    THEN [found |-> TRUE, v |-> list[ref + 1]]
    ELSE [found |-> FALSE, v |-> 0]

(***************************************************************************)
(* The state a handler works on: the Context's tables, the stream, the     *)
(* pending exception (err, "" for none) and the log of what the handlers   *)
(* of the running operation registered and referenced.                     *)
(***************************************************************************)
NoErr == ""

Failed(st) == st.err # NoErr
Raise(st, e) == IF Failed(st) THEN st ELSE [st EXCEPT !.err = e]

\* an event of the log: what happened (ev), to which object (id), at which
\* reference index (idx), at which length of the stream (at), with which
\* bytes (s)
Log(st, ev, id, idx, s) ==
    IF Failed(st) THEN st
    ELSE [st EXCEPT !.log = Append(@, [ev |-> ev, id |-> id, idx |-> idx,
                                       at |-> Len(st.stream), s |-> s])]

\* stream.write / stream.write_uchar
Write(st, bytes) == IF Failed(st) THEN st ELSE [st EXCEPT !.stream = @ \o bytes]

\* Context.getObjectReference, Context.addObject
getObjectReference(st, id) == getReferenceTo(st.objects, id)

addObject(st, id) ==
    IF Failed(st) THEN st
    ELSE Log([st EXCEPT !.objects = Append(@, id)], "obj_add", id, Len(st.objects), <<>>)

\* Context.getStringReference, Context.addString
getStringReference(st, s) == getReferenceTo(st.strings, s)

\* the length of s is not looked at
addString_any(st, s) ==
    IF Failed(st) THEN st
    ELSE [st EXCEPT !.strings = Append(@, s)]

addString(st, s) ==
    IF Failed(st) \/ Len(s) = 0 THEN st
    ELSE [st EXCEPT !.strings = Append(@, s)]

\* Context.getClass: the key of the definition in class_ref, or -1 for None
getClass(st, klass) ==
    IF klass \in DOMAIN st.classes THEN st.classes[klass] ELSE 0 - 1

\* class_idx is not advanced
addClass_same(st, def, klass) ==
    IF Failed(st) THEN st
    ELSE LET ref == st.class_idx
             cd == [def EXCEPT !.reference = RefInt(ref)]
         IN  [st EXCEPT
                !.class_ref = [r \in DOMAIN st.class_ref \cup {ref} |->
                                  IF r = ref THEN cd ELSE st.class_ref[r]],
                !.classes = [k \in DOMAIN st.classes \cup {klass} |->
                                  IF k = klass THEN ref ELSE st.classes[k]]]

\* Context.addClass
addClass(st, def, klass) ==
    IF Failed(st) THEN st
    ELSE LET ref == st.class_idx
             cd == [def EXCEPT !.reference = RefInt(ref)]
         IN  [st EXCEPT
                !.class_ref = [r \in DOMAIN st.class_ref \cup {ref} |->
                                  IF r = ref THEN cd ELSE st.class_ref[r]],
                !.classes = [k \in DOMAIN st.classes \cup {klass} |->
                                  IF k = klass THEN ref ELSE st.classes[k]],
                !.class_idx = ref + 1]

\* Context.getLegacyXMLReference, Context.addLegacyXML
getLegacyXMLReference(st, id) == getReferenceTo(st.legacy_xml, id)

addLegacyXML(st, id) ==
    IF Failed(st) THEN st ELSE [st EXCEPT !.legacy_xml = Append(@, id)]

(***************************************************************************)
(* Handles.  A positive handle id names heap[id].  The proxy that          *)
(* Context.getProxyForObject keeps for the list or dict id has the handle  *)
(* -id, and the copy list(self) that ArrayCollection.__writeamf__ writes   *)
(* has the handle id + 1000.                                               *)
(***************************************************************************)
CopyOf(id) == id + 1000

Obj(id) ==
    IF id < 0
    THEN [ObjBlank EXCEPT !.k = "object", !.n = 0 - id,
                          !.cls = IF heap[0 - id].k = "list"
                                  THEN K_ARRAYCOLLECTION ELSE K_OBJECTPROXY]
    ELSE IF id > 1000 THEN heap[id - 1000]
    ELSE heap[id]

\* zlib, a stand-in: the compressed form is a two-byte header and the data,
\* and only bytes that start with the header decompress
zlib_decompress(buf) ==
    IF Len(buf) >= 2 /\ buf[1] = 120 /\ buf[2] = 218
    THEN [ok |-> TRUE, data |-> SubSeq(buf, 3, Len(buf))]
    ELSE [ok |-> FALSE, data |-> <<>>]

\* ByteArray.__str__: o.n = 1 is the compressed flag
ByteArrayStr(o) == IF o.n = 1 THEN <<120, 218>> \o o.s ELSE o.s

(***************************************************************************)
(* Encoder.  st is the state the handler starts from, s1, s2, ... the      *)
(* states after its steps; a handler that goes on from a state computed by *)
(* other handlers takes it as a parameter (writeObject_attrs is            *)
(* writeObject from "if alias.external" on).                               *)
(***************************************************************************)
\* Encoder._writeInteger
_writeInteger(st, n) ==
    IF Failed(st) THEN st
    ELSE LET e == encode_int(n)
         IN  IF e.ok THEN Write(st, e.bytes) ELSE Raise(st, "OverflowError")

\* Encoder.writeUndefined, writeNull, writeBoolean
writeUndefined(st) == Write(st, <<TYPE_UNDEFINED>>)
writeNull(st) == Write(st, <<TYPE_NULL>>)
writeBoolean(st, n) == Write(st, <<IF n THEN TYPE_BOOL_TRUE ELSE TYPE_BOOL_FALSE>>)

\* Encoder.writeNumber
writeNumber(st, n) == Write(Write(st, <<TYPE_NUMBER>>), write_double(n))

\* Encoder.writeInteger of an integer of magnitude 2^1024 or more: it is
\* outside the range, and float(n) raises OverflowError before writeNumber is
\* called
writeInteger_long(st, sign) == Raise(st, "OverflowError")

writeInteger_strict(st, n) ==
    \* the ends of the range taken as outside it
    IF n <= MIN_29B_INT \/ n >= MAX_29B_INT
    THEN writeNumber(st, n)
    ELSE _writeInteger(Write(st, <<TYPE_INTEGER>>), n)

\* Encoder.writeInteger
writeInteger(st, n) ==
    IF n < MIN_29B_INT \/ n > MAX_29B_INT
    THEN writeNumber(st, n)
    ELSE _writeInteger(Write(st, <<TYPE_INTEGER>>), n)

\* Encoder._writeString, the inline form
_writeString_inline(st, s) ==
    Write(_writeInteger(st, Shl(Len(s), 1) + REFERENCE_BIT), s)

_writeString_noref(st, s, ref) ==
    \* the reference found is not used
    _writeString_inline(
        addString(Log(st, "str_inline", 0,
                      IF Len(s) = 0 THEN 0 - 1 ELSE Len(st.strings), s), s), s)

\* Encoder._writeString with string_references, ref the reference found
_writeString_ref(st, s, ref) ==
    IF ref # 0 - 1
    THEN _writeInteger(Log(st, "str_ref", 0, ref, s), Shl(ref, 1))
    ELSE _writeString_inline(
             addString(Log(st, "str_inline", 0,
                           IF Len(s) = 0 THEN 0 - 1 ELSE Len(st.strings), s), s), s)

\* Encoder._writeString
_writeString(st, s) ==
    IF Failed(st) THEN st
    ELSE IF opts.string_references
    THEN _writeString_ref(st, s, getStringReference(st, s))
    ELSE _writeString_inline(Log(st, "str_inline", 0, 0 - 1, s), s)

\* Encoder.writeString
writeString(st, s) == _writeString(Write(st, <<TYPE_STRING>>), s)

\* Encoder.writeDate
writeDate(st, id) ==
    IF Failed(st) THEN st
    ELSE IF Obj(id).k = "time" THEN Raise(st, "EncodeError")
    ELSE LET s1 == Write(st, <<TYPE_DATE>>)
             ref == getObjectReference(st, id)
             ms == IF opts.timezone_offset.set
                   THEN Obj(id).n - opts.timezone_offset.ms ELSE Obj(id).n
         IN  IF ref # 0 - 1
             THEN _writeInteger(Log(s1, "obj_ref", id, ref, <<>>), Shl(ref, 1))
             ELSE Write(Write(addObject(s1, id), <<REFERENCE_BIT>>), write_double(ms))

\* the object is registered after its bytes are written
writeByteArray_after(st, id) ==
    IF Failed(st) THEN st
    ELSE LET s1 == Write(st, <<TYPE_BYTEARRAY>>)
             ref == getObjectReference(st, id)
             buf == ByteArrayStr(Obj(id))
         IN  IF ref # 0 - 1
             THEN _writeInteger(Log(s1, "obj_ref", id, ref, <<>>), Shl(ref, 1))
             ELSE addObject(Write(_writeInteger(s1, Shl(Len(buf), 1) + REFERENCE_BIT),
                                  buf),
                            id)

\* Encoder.writeByteArray
writeByteArray(st, id) ==
    IF Failed(st) THEN st
    ELSE LET s1 == Write(st, <<TYPE_BYTEARRAY>>)
             ref == getObjectReference(st, id)
             buf == ByteArrayStr(Obj(id))
         IN  IF ref # 0 - 1
             THEN _writeInteger(Log(s1, "obj_ref", id, ref, <<>>), Shl(ref, 1))
             ELSE Write(_writeInteger(addObject(s1, id),
                                      Shl(Len(buf), 1) + REFERENCE_BIT),
                        buf)

\* the legacy-XML table is not looked at
writeXML_plain(st, id) ==
    IF Failed(st) THEN st
    ELSE LET s1 == Write(st, <<TYPE_XMLSTRING>>)
             ref == getObjectReference(st, id)
         IN  IF ref # 0 - 1
             THEN _writeInteger(Log(s1, "obj_ref", id, ref, <<>>), Shl(ref, 1))
             ELSE _writeString(addObject(s1, id), Obj(id).s)

\* Encoder.writeXML
writeXML(st, id) ==
    IF Failed(st) THEN st
    ELSE LET i == getLegacyXMLReference(st, id)
             s1 == Write(st, <<IF i = 0 - 1 THEN TYPE_XMLSTRING ELSE TYPE_XML>>)
             ref == getObjectReference(st, id)
         IN  IF ref # 0 - 1
             THEN _writeInteger(Log(s1, "obj_ref", id, ref, <<>>), Shl(ref, 1))
             ELSE _writeString(addObject(s1, id), Obj(id).s)

(***************************************************************************)
(* Encoder.writeDict: the partition of the keys                            *)
(***************************************************************************)
\* str(x) of an integer: its decimal digits, '-' first when negative
RECURSIVE Digits(_)
Digits(n) == IF n < 10 THEN <<48 + n>> ELSE Digits(n \div 10) \o <<48 + (n % 10)>>
str(x) == IF x < 0 THEN <<45>> \o Digits(0 - x) ELSE Digits(x)

\* list.index(x), 1-based; the list holds x
IndexIn(list, x) == CHOOSE i \in 1..Len(list) : list[i] = x /\ \A j \in 1..(i - 1) : list[j] # x

\* del list[i]
DelAt(list, i) == SubSeq(list, 1, i - 1) \o SubSeq(list, i + 1, Len(list))

\* list.sort() of integers
RECURSIVE SortInts(_)
SortInts(list) ==
    IF list = <<>> THEN <<>>
    ELSE LET m == CHOOSE i \in 1..Len(list) : \A j \in 1..Len(list) : list[i] <= list[j]
         IN  <<list[m]>> \o SortInts(DelAt(list, m))

\* the first loop over keys: integers to int_keys, strings to str_keys;
\* bad = TRUE when a key is neither (ValueError)
RECURSIVE SplitKeys(_, _, _)
SplitKeys(keys, i, acc) ==
    IF i > Len(keys) THEN acc
    ELSE IF keys[i].t = "int"
    THEN SplitKeys(keys, i + 1, [acc EXCEPT !.int_keys = Append(@, keys[i].n)])
    ELSE IF keys[i].t = "str"
    THEN SplitKeys(keys, i + 1, [acc EXCEPT !.str_keys = Append(@, keys[i])])
    ELSE [acc EXCEPT !.bad = TRUE]

\* "for x in int_keys: if l < x <= 0: ..." : the list is stepped through by
\* position while the body deletes from it
RECURSIVE RangeLoop(_, _, _)
RangeLoop(acc, i, l) ==
    IF i > Len(acc.int_keys) THEN acc
    ELSE IF l < acc.int_keys[i] /\ acc.int_keys[i] <= 0
    THEN RangeLoop([acc EXCEPT !.str_keys = Append(@, VInt(acc.int_keys[i])),
                               !.int_keys = DelAt(@, IndexIn(@, acc.int_keys[i]))],
                   i + 1, l)
    ELSE RangeLoop(acc, i + 1, l)

\* "for x in int_keys: str_keys.append(str(x)); del int_keys[...]", stepped
\* through by position in the same way
RECURSIVE ZeroLoop(_, _)
ZeroLoop(acc, i) ==
    IF i > Len(acc.int_keys) THEN acc
    ELSE ZeroLoop([acc EXCEPT !.str_keys = Append(@, VStr(str(acc.int_keys[i]))),
                              !.int_keys = DelAt(@, IndexIn(@, acc.int_keys[i]))],
                  i + 1)

\* the keys of a mapping as writeDict partitions them
PartitionKeys(keys) ==
    LET a0 == SplitKeys(keys, 1, [int_keys |-> <<>>, str_keys |-> <<>>, bad |-> FALSE])
        a2 == [RangeLoop(a0, 1, Len(a0.int_keys)) EXCEPT !.int_keys = SortInts(@)]
    IN  IF a0.bad THEN a0
        ELSE IF Len(a2.int_keys) > 0 /\ a2.int_keys[1] # 0 THEN ZeroLoop(a2, 1)
        ELSE a2

\* n[x]: found = FALSE is KeyError
DictHits(o, key) == {i \in 1..Len(o.keys) : o.keys[i] = key}
DictGet(o, key) ==
    IF DictHits(o, key) = {} THEN [found |-> FALSE, v |-> VNull]
    ELSE [found |-> TRUE, v |-> o.items[CHOOSE i \in DictHits(o, key) : TRUE]]

(***************************************************************************)
(* Encoder: the handlers that write other elements.  up is the use_proxies *)
(* argument: "none" (take the Encoder's setting), "true" or "false".       *)
(***************************************************************************)
UseProxies(up) == IF up = "none" THEN opts.use_proxies ELSE up = "true"

RECURSIVE writeElement(_, _, _)

\* [self._writeString(attr) for attr in alias.static_attrs]
RECURSIVE writeNames(_, _, _)
writeNames(st, names, i) ==
    IF Failed(st) \/ i > Len(names) THEN st
    ELSE writeNames(_writeString(st, names[i]), names, i + 1)

\* self.writeElement(n[x]): got is n[x]
writeLookedUp(st, got) ==
    IF Failed(st) THEN st
    ELSE IF got.found THEN writeElement(st, got.v, "none")
    ELSE Raise(st, "KeyError")

\* [self.writeElement(x) for x in n]
RECURSIVE writeItems(_, _, _)
writeItems(st, items, i) ==
    IF Failed(st) \/ i > Len(items) THEN st
    ELSE writeItems(writeElement(st, items[i], "none"), items, i + 1)

\* Encoder.writeProxy (Context.getProxyForObject, flex.proxy_object: lists
\* and dicts are wrapped, other objects are not)
writeProxy(st, id) ==
    writeElement(st, VObj(IF Obj(id).k \in {"list", "dict"} THEN 0 - id ELSE id), "false")

\* Encoder.writeList
writeList(st, id, up) ==
    IF Failed(st) THEN st
    ELSE IF UseProxies(up) THEN writeProxy(st, id)
    ELSE LET s1 == Write(st, <<TYPE_ARRAY>>)
             ref == getObjectReference(st, id)
         IN  IF ref # 0 - 1
             THEN _writeInteger(Log(s1, "obj_ref", id, ref, <<>>), Shl(ref, 1))
             ELSE writeItems(Write(_writeInteger(addObject(s1, id),
                                                 Shl(Len(Obj(id).items), 1)
                                                   + REFERENCE_BIT),
                                   <<1>>),
                             Obj(id).items, 1)

\* for x in str_keys: self._writeString(x); self.writeElement(n[x])
RECURSIVE writeStrPairs(_, _, _, _)
writeStrPairs(st, id, str_keys, i) ==
    IF Failed(st) \/ i > Len(str_keys) THEN st
    ELSE writeStrPairs(
             writeLookedUp(IF str_keys[i].t = "str" THEN _writeString(st, str_keys[i].s)
                           ELSE Raise(st, "TypeError"),
                           DictGet(Obj(id), str_keys[i])),
             id, str_keys, i + 1)

\* for k in int_keys: self.writeElement(n[k])
RECURSIVE writeIntVals(_, _, _, _)
writeIntVals(st, id, int_keys, i) ==
    IF Failed(st) \/ i > Len(int_keys) THEN st
    ELSE writeIntVals(writeLookedUp(st, DictGet(Obj(id), VInt(int_keys[i]))),
                      id, int_keys, i + 1)

\* Encoder.writeDict from "self.context.addObject(n)" on; s2 is the state
\* after it
writeDict_keys(s2, id, part) ==
    IF part.bad THEN Raise(s2, "ValueError")
    ELSE writeIntVals(
             Write(writeStrPairs(_writeInteger(s2, Shl(Len(part.int_keys), 1)
                                                   + REFERENCE_BIT),
                                 id, part.str_keys, 1),
                   <<1>>),
             id, part.int_keys, 1)

writeDict_late(st, id, up) ==
    \* the check for the empty key made after the marker is written
    IF Failed(st) THEN st
    ELSE IF UseProxies(up) THEN writeProxy(st, id)
    ELSE IF \E i \in 1..Len(Obj(id).keys) : Obj(id).keys[i] = VStr(<<>>)
    THEN Raise(Write(st, <<TYPE_ARRAY>>), "EncodeError")
    ELSE LET s1 == Write(st, <<TYPE_ARRAY>>)
             ref == getObjectReference(st, id)
         IN  IF ref # 0 - 1
             THEN _writeInteger(Log(s1, "obj_ref", id, ref, <<>>), Shl(ref, 1))
             ELSE writeDict_keys(addObject(s1, id), id, PartitionKeys(Obj(id).keys))

\* Encoder.writeDict
writeDict(st, id, up) ==
    IF Failed(st) THEN st
    ELSE IF \E i \in 1..Len(Obj(id).keys) : Obj(id).keys[i] = VStr(<<>>)
    THEN Raise(st, "EncodeError")
    ELSE IF UseProxies(up) THEN writeProxy(st, id)
    ELSE LET s1 == Write(st, <<TYPE_ARRAY>>)
             ref == getObjectReference(st, id)
         IN  IF ref # 0 - 1
             THEN _writeInteger(Log(s1, "obj_ref", id, ref, <<>>), Shl(ref, 1))
             ELSE writeDict_keys(addObject(s1, id), id, PartitionKeys(Obj(id).keys))

\* obj.__writeamf__(DataOutput(self)): an instance of the externalizable
\* class writes its items, an ArrayCollection a copy of its list, an
\* ObjectProxy the object it wraps (DataOutput.writeObject)
writeamf(st, id) ==
    CASE Obj(id).cls = K_ARRAYCOLLECTION /\ id < 0 ->
            writeElement(st, VObj(CopyOf(Obj(id).n)), "false")
      [] Obj(id).cls = K_OBJECTPROXY /\ id < 0 ->
            writeElement(st, VObj(Obj(id).n), "false")
      [] OTHER -> writeItems(st, Obj(id).items, 1)

\* for attr in alias.static_attrs: value = attrs.pop(attr); self.writeElement(value)
RECURSIVE writeStaticVals(_, _, _, _)
writeStaticVals(st, id, names, i) ==
    IF Failed(st) \/ i > Len(names) THEN st
    ELSE writeStaticVals(writeLookedUp(st, DictGet(Obj(id), VStr(names[i]))),
                         id, names, i + 1)

\* for attr, value in attrs.iteritems(): the attributes left after the pops
\* of the static attributes, in the order of the dict
RECURSIVE writeDynamic(_, _, _, _)
writeDynamic(st, id, names, i) ==
    IF Failed(st) \/ i > Len(Obj(id).keys) THEN st
    ELSE IF \A j \in 1..Len(names) : Obj(id).keys[i] # VStr(names[j])
    THEN writeDynamic(writeElement(_writeString(st, Obj(id).keys[i].s),
                                   Obj(id).items[i], "none"),
                      id, names, i + 1)
    ELSE writeDynamic(st, id, names, i + 1)

\* Encoder.writeObject from "if alias.external" on; class_ref tells whether
\* the class definition was written as a reference
writeObject_attrs(s2, id, definition, class_ref) ==
    LET alias == definition.alias
        s3 == IF alias.static_attrs = <<>> THEN s2
              ELSE writeStaticVals(IF class_ref THEN s2
                                   ELSE writeNames(s2, alias.static_attrs, 1),
                                   id, alias.static_attrs, 1)
    IN  IF Failed(s2) THEN s2
        ELSE IF alias.external THEN writeamf(s2, id)
        ELSE IF alias.static_attrs # <<>> /\ definition.encoding = ENC_STATIC THEN s3
        ELSE IF definition.encoding = ENC_DYNAMIC
        THEN Write(writeDynamic(s3, id, alias.static_attrs, 1), <<1>>)
        ELSE s3

\* Encoder.writeObject, "if class_ref: ... else: ..." when the class is new:
\* hdr is final_reference, newref what definition.reference becomes
writeObject_inline(s1, id, key, definition, hdr, newref) ==
    LET s1a == Write(Log(s1, "cls_inline", id, key, hdr.bytes), hdr.bytes)
        s1b == [s1a EXCEPT !.class_ref[key].reference = RefBytes(newref.bytes)]
    IN  IF ~hdr.ok THEN Raise(s1, "OverflowError")
        ELSE IF ~newref.ok THEN Raise(s1a, "OverflowError")
        ELSE writeObject_attrs(IF definition.alias.anonymous THEN Write(s1b, <<1>>)
                               ELSE _writeString(s1b, definition.alias.alias),
                               id, definition, FALSE)

\* attr_len goes into the header whatever the encoding
writeObject_new_counted(s1, id, key) ==
    IF Failed(s1) THEN s1
    ELSE writeObject_inline(
             s1, id, key, s1.class_ref[key],
             encode_int(Shl(s1.class_ref[key].attr_len, 4)
                        + Shl(s1.class_ref[key].encoding, 2) + Shl(REFERENCE_BIT, 1)
                        + REFERENCE_BIT),
             encode_int(Shl(s1.class_ref[key].reference.n, 2) + REFERENCE_BIT))

\* Encoder.writeObject when the class is new, s1 the state after addClass
writeObject_new(s1, id, key) ==
    IF Failed(s1) THEN s1
    ELSE writeObject_inline(
             s1, id, key, s1.class_ref[key],
             encode_int((IF s1.class_ref[key].encoding # ENC_EXTERNAL
                         THEN Shl(s1.class_ref[key].attr_len, 4) ELSE 0)
                        + Shl(s1.class_ref[key].encoding, 2) + Shl(REFERENCE_BIT, 1)
                        + REFERENCE_BIT),
             encode_int(Shl(s1.class_ref[key].reference.n, 2) + REFERENCE_BIT))

writeObject_names_again(st, id, key) ==
    \* the class is written in full again
    writeObject_new(st, id, key)

\* Encoder.writeObject, "if class_ref: self.stream.write(definition.reference)"
writeObject_known(st, id, key) ==
    IF st.class_ref[key].reference.k = "bytes"
    THEN writeObject_attrs(
             Write(Log(st, "cls_ref", id, key, st.class_ref[key].reference.s),
                   st.class_ref[key].reference.s),
             id, st.class_ref[key], TRUE)
    ELSE Raise(st, "TypeError")

\* Encoder.writeObject, from "kls = obj.__class__" on
writeObjectBody(st, id) ==
    IF Failed(st) THEN st
    ELSE IF getClass(st, Obj(id).cls) # 0 - 1
    THEN writeObject_known(st, id, getClass(st, Obj(id).cls))
    ELSE writeObject_new(addClass(st, ClassDefinition(Registry[Obj(id).cls]),
                                  Obj(id).cls),
                         id, st.class_idx)

\* Encoder.writeObject
writeObject(st, id, up) ==
    IF Failed(st) THEN st
    ELSE IF UseProxies(up) THEN writeProxy(st, id)
    ELSE LET s1 == Write(st, <<TYPE_OBJECT>>)
             ref == getObjectReference(st, id)
         IN  IF ref # 0 - 1
             THEN _writeInteger(Log(s1, "obj_ref", id, ref, <<>>), Shl(ref, 1))
             ELSE writeObjectBody(addObject(s1, id), id)

\* codec.Encoder.writeElement: the handler is chosen by the type of the value
writeElement(st, v, up) ==
    IF Failed(st) THEN st
    ELSE CASE v.t = "undefined" -> writeUndefined(st)
           [] v.t = "null" -> writeNull(st)
           [] v.t = "true" -> writeBoolean(st, TRUE)
           [] v.t = "false" -> writeBoolean(st, FALSE)
           [] v.t = "int" -> writeInteger(st, v.n)
           [] v.t = "long" -> writeInteger_long(st, v.n)
           [] v.t = "number" -> writeNumber(st, v.n)
           [] v.t = "str" -> writeString(st, v.s)
           [] v.t = "obj" /\ Obj(v.n).k \in {"date", "time"} -> writeDate(st, v.n)
           [] v.t = "obj" /\ Obj(v.n).k = "list" -> writeList(st, v.n, up)
           [] v.t = "obj" /\ Obj(v.n).k = "dict" -> writeDict(st, v.n, up)
           [] v.t = "obj" /\ Obj(v.n).k = "bytearray" -> writeByteArray(st, v.n)
           [] v.t = "obj" /\ Obj(v.n).k = "xml" -> writeXML(st, v.n)
           [] v.t = "obj" -> writeObject(st, v.n, up)
           [] OTHER -> Raise(st, "EncodeError")

(***************************************************************************)
(* Decoder.  The state of a read has the Context's tables, the bytes       *)
(* consumed so far (stream), the bytes still to read (rest), the heap the  *)
(* decoded objects are allocated in, and the value returned (ret; None is  *)
(* VNull).  d is the state a handler starts from and d1 the state after    *)
(* its first read; a handler that goes on from a state computed by other   *)
(* handlers takes it as a parameter.                                       *)
(***************************************************************************)
Ret(d, v) == IF Failed(d) THEN d ELSE [d EXCEPT !.ret = v]

\* stream.read(n): IOError past the end
Consume(d, n) ==
    IF Failed(d) THEN d
    ELSE IF n > Len(d.rest) THEN Raise(d, "IOError")
    ELSE [d EXCEPT !.stream = @ \o SubSeq(d.rest, 1, n),
                   !.rest = SubSeq(@, n + 1, Len(@))]

\* a new host object
Alloc(d, o) == IF Failed(d) THEN d ELSE [d EXCEPT !.heap = Append(@, o)]
NewId(d) == Len(d.heap) + 1

\* Decoder.readInteger: ret is the integer
readInteger(d, signed) ==
    IF Failed(d) THEN d
    ELSE LET r == decode_int(d.rest, 1, signed)
         IN  IF r.ok THEN Ret(Consume(d, r.pos - 1), VInt(r.value))
             ELSE Raise(d, "IOError")

\* Decoder.readNumber
readNumber(d) ==
    IF Failed(d) THEN d
    ELSE IF Len(d.rest) < 8 THEN Raise(d, "IOError")
    ELSE LET r == read_double(SubSeq(d.rest, 1, 8))
         IN  Ret(Consume(d, 8),
                 IF r.ok THEN VNum(r.value)
                 ELSE [t |-> "number", n |-> 0, s |-> SubSeq(d.rest, 1, 8)])

\* Decoder.readString (with Decoder._readLength) from the length read on; d1 is
\* the state after it
readString_len(d1) ==
    LET length == Shr(d1.ret.n, 1)
        got == getByReference(d1.strings, length)
        result == SubSeq(d1.rest, 1, length)
    IN  IF Failed(d1) THEN d1
        ELSE IF d1.ret.n % 2 = 0
        THEN Ret(Log(d1, "str_ref", 0, length, IF got.found THEN got.v ELSE <<>>),
                 IF got.found THEN VStr(got.v) ELSE VNull)
        ELSE IF length = 0 THEN Ret(d1, VStr(<<>>))
        ELSE Ret(addString(Log(Consume(d1, length), "str_inline", 0,
                               Len(d1.strings), result),
                           result),
                 VStr(result))

\* Decoder.readString
readString(d) == readString_len(readInteger(d, FALSE))

\* Decoder.readUnicode: getUnicodeForString(None) fails on None.decode
readUnicode(d) ==
    LET d1 == readString(d)
    IN  IF ~Failed(d1) /\ d1.ret = VNull THEN Raise(d1, "AttributeError") ELSE d1

\* Context.getObject: ret is the object, or None
getObject(d, ref) ==
    LET got == getByReference(d.objects, ref)
    IN  Ret(Log(d, "obj_ref", IF got.found THEN got.v ELSE 0, ref, <<>>),
            IF got.found THEN VObj(got.v) ELSE VNull)

\* Decoder.readDate from "ms = self.stream.read_double()" on; d2 is the state
\* after it
readDate_new(d2) ==
    Ret(addObject(Alloc(d2, ODate(IF opts.timezone_offset.set
                                  THEN d2.ret.n + opts.timezone_offset.ms
                                  ELSE d2.ret.n)),
                  NewId(d2)),
        VObj(NewId(d2)))

\* Decoder.readDate
readDate(d) ==
    LET d1 == readInteger(d, FALSE)
    IN  IF Failed(d1) THEN d1
        ELSE IF d1.ret.n % 2 = 0 THEN getObject(d1, Shr(d1.ret.n, 1))
        ELSE readDate_new(readNumber(d1))

\* util.ET.fromstring, a stand-in: a document is its serialized text, and
\* only text that starts with '<' parses
WellFormed(s) == Len(s) > 0 /\ s[1] = 60

\* Decoder._readXML from "x = xml.fromstring(xmlstring)" on; d2 is the state
\* after the string is read
_readXML_new(d2, xmlstring, legacy) ==
    LET d3 == addObject(Alloc(d2, OXml(xmlstring)), NewId(d2))
    IN  IF Failed(d2) THEN d2
        ELSE IF ~WellFormed(xmlstring) THEN Raise(d2, "ParseError")
        ELSE Ret(IF legacy THEN addLegacyXML(d3, NewId(d2)) ELSE d3, VObj(NewId(d2)))

\* Decoder._readXML
_readXML(d, legacy) ==
    LET d1 == readInteger(d, FALSE)
    IN  IF Failed(d1) THEN d1
        ELSE IF d1.ret.n % 2 = 0 THEN getObject(d1, Shr(d1.ret.n, 1))
        ELSE _readXML_new(Consume(d1, Shr(d1.ret.n, 1)),
                          SubSeq(d1.rest, 1, Shr(d1.ret.n, 1)), legacy)

\* Decoder.readByteArray from "buffer = self.stream.read(ref >> 1)" on
readByteArray_new(d2, buffer) ==
    LET z == zlib_decompress(buffer)
    IN  Ret(addObject(Alloc(d2, [OBytes(IF z.ok THEN z.data ELSE buffer)
                                    EXCEPT !.n = IF z.ok THEN 1 ELSE 0]),
                      NewId(d2)),
            VObj(NewId(d2)))

\* Decoder.readByteArray
readByteArray(d) ==
    LET d1 == readInteger(d, FALSE)
    IN  IF Failed(d1) THEN d1
        ELSE IF d1.ret.n % 2 = 0 THEN getObject(d1, Shr(d1.ret.n, 1))
        ELSE readByteArray_new(Consume(d1, Shr(d1.ret.n, 1)),
                               SubSeq(d1.rest, 1, Shr(d1.ret.n, 1)))

(***************************************************************************)
(* Decoder: the handlers that read other elements                          *)
(***************************************************************************)
\* result.append(v) on the list id
ListAppend(d, id, v) ==
    IF Failed(d) THEN d ELSE [d EXCEPT !.heap[id].items = Append(@, v)]

\* an entry the mapping already has is kept
DictSet_first(d, id, key, v) ==
    IF Failed(d) THEN d
    ELSE IF DictHits(d.heap[id], key) = {}
    THEN [d EXCEPT !.heap[id].keys = Append(@, key),
                   !.heap[id].items = Append(@, v)]
    ELSE d

\* result[key] = v on the mapping id
DictSet(d, id, key, v) ==
    IF Failed(d) THEN d
    ELSE IF DictHits(d.heap[id], key) = {}
    THEN [d EXCEPT !.heap[id].keys = Append(@, key),
                   !.heap[id].items = Append(@, v)]
    ELSE [d EXCEPT !.heap[id].items[CHOOSE i \in DictHits(d.heap[id], key) : TRUE] = v]

\* obj_attrs[attr] = v, obj_attrs being the local dict of the readObject call
\* that builds the object id
AttrSet(d, id, key, v) ==
    IF Failed(d) THEN d
    ELSE IF DictHits(d.tmp[id], key) = {}
    THEN [d EXCEPT !.tmp[id].keys = Append(@, key),
                   !.tmp[id].items = Append(@, v)]
    ELSE [d EXCEPT !.tmp[id].items[CHOOSE i \in DictHits(d.tmp[id], key) : TRUE] = v]

\* obj_attrs = dict()
NewAttrs(d, id) ==
    IF Failed(d) THEN d
    ELSE [d EXCEPT !.tmp = [i \in DOMAIN d.tmp \cup {id} |->
                               IF i = id THEN [keys |-> <<>>, items |-> <<>>]
                               ELSE d.tmp[i]]]

\* alias.applyAttributes(obj, obj_attrs)
applyAttributes(d, id) ==
    IF Failed(d) THEN d
    ELSE [d EXCEPT !.heap[id].keys = d.tmp[id].keys,
                   !.heap[id].items = d.tmp[id].items,
                   !.tmp = [i \in DOMAIN d.tmp \ {id} |-> d.tmp[i]]]

\* pyamf.get_class_alias(name): the registered alias of that name
AliasHits(name) ==
    {k \in Klasses : ~Registry[k].anonymous /\ VStr(Registry[k].alias) = name}
get_class_alias_named(name) ==
    IF AliasHits(name) = {} THEN [found |-> FALSE, alias |-> Registry[K_TYPED]]
    ELSE [found |-> TRUE, alias |-> Registry[CHOOSE k \in AliasHits(name) : TRUE]]

\* pyamf.TypedObjectClassAlias(pyamf.TypedObject, name)
TypedObjectClassAlias(name) ==
    MkAlias(K_TYPED, IF name.t = "str" THEN name.s ELSE <<>>, FALSE, TRUE, FALSE,
            <<>>, <<>>)

\* the object a handle read from the object table names
readProxy_obj(d, id) == IF id > 1000 THEN Obj(id) ELSE d.heap[id]

\* Decoder.readProxy (Context.getObjectForProxy): a proxy gives what it wraps;
\* a negative handle is a proxy the Encoder made for a host object
readProxy(d) ==
    IF Failed(d) \/ d.ret.t # "obj" THEN d
    ELSE IF d.ret.n < 0
    THEN Ret(d, VObj(IF Obj(0 - d.ret.n).k = "list" THEN CopyOf(0 - d.ret.n)
                     ELSE 0 - d.ret.n))
    ELSE IF /\ readProxy_obj(d, d.ret.n).k = "object"
            /\ readProxy_obj(d, d.ret.n).cls \in {K_ARRAYCOLLECTION, K_OBJECTPROXY}
            /\ readProxy_obj(d, d.ret.n).items # <<>>
    THEN Ret(d, readProxy_obj(d, d.ret.n).items[1])
    ELSE d

RECURSIVE readElement(_)

\* the loop of Decoder._getClassDefinition that reads the property names
RECURSIVE readNames(_, _, _)
readNames(d, n, acc) ==
    IF Failed(d) THEN d
    ELSE IF n = 0 THEN Ret(d, [t |-> "names", n |-> 0, s |-> acc])
    ELSE LET d1 == readString(d)
         IN  IF Failed(d1) THEN d1 ELSE readNames(d1, n - 1, Append(acc, d1.ret))

\* Decoder._getClassDefinition from "class_def = ClassDefinition(alias)" on;
\* d2 is the state after the property names are read
_getClassDefinition_add(d2, ref, alias) ==
    IF Failed(d2) THEN d2
    ELSE Ret(addClass(Log(d2, "cls_inline", alias.klass, d2.class_idx, <<>>),
                      [ClassDefinition(alias) EXCEPT
                          !.encoding = ref % 4,
                          !.attr_len = Shr(ref, 2),
                          !.has_static_properties = TRUE,
                          !.static_properties = d2.ret.s],
                      alias.klass),
             VInt(d2.class_idx))

_getClassDefinition_lenient(d, ref0) ==
    \* strict is not looked at
    LET ref == Shr(ref0, 1)
        d1 == readString(d)
        found == IF d1.ret = VStr(<<>>)
                 THEN [found |-> TRUE, alias |-> Registry[K_ASOBJECT]]
                 ELSE get_class_alias_named(d1.ret)
    IN  IF Failed(d) THEN d
        ELSE IF ref0 % 2 = 0
        THEN Ret(Log(d, "cls_ref", 0, ref, <<>>),
                 IF ref \in DOMAIN d.class_ref THEN VInt(ref) ELSE VNull)
        ELSE IF Failed(d1) THEN d1
        ELSE _getClassDefinition_add(readNames(d1, Shr(ref, 2), <<>>), ref,
                                     IF found.found THEN found.alias
                                     ELSE TypedObjectClassAlias(d1.ret))

\* Decoder._getClassDefinition: ret is the key of the definition in
\* class_ref, or None
_getClassDefinition(d, ref0) ==
    LET ref == Shr(ref0, 1)
        d1 == readString(d)
        found == IF d1.ret = VStr(<<>>)
                 THEN [found |-> TRUE, alias |-> Registry[K_ASOBJECT]]
                 ELSE get_class_alias_named(d1.ret)
    IN  IF Failed(d) THEN d
        ELSE IF ref0 % 2 = 0
        THEN Ret(Log(d, "cls_ref", 0, ref, <<>>),
                 IF ref \in DOMAIN d.class_ref THEN VInt(ref) ELSE VNull)
        ELSE IF Failed(d1) THEN d1
        ELSE IF ~found.found /\ opts.strict THEN Raise(d1, "UnknownClassAlias")
        ELSE _getClassDefinition_add(readNames(d1, Shr(ref, 2), <<>>), ref,
                                     IF found.found THEN found.alias
                                     ELSE TypedObjectClassAlias(d1.ret))

\* for i in xrange(size): result.append(self.readElement())
RECURSIVE readListItems(_, _, _, _)
readListItems(d, id, i, size) ==
    IF Failed(d) \/ i >= size THEN d
    ELSE LET d1 == readElement(d)
         IN  readListItems(ListAppend(d1, id, d1.ret), id, i + 1, size)

\* while key: result[key] = self.readElement(); key = self.readString()
RECURSIVE readPairs(_, _, _)
readPairs_key(d2, id) ==
    IF Failed(d2) THEN d2 ELSE readPairs(d2, id, d2.ret)

readPairs(d, id, key) ==
    IF Failed(d) \/ key = VNull \/ key = VStr(<<>>) THEN d
    ELSE LET d1 == readElement(d)
         IN  readPairs_key(readString(DictSet(d1, id, key, d1.ret)), id)

\* for i in xrange(size): el = self.readElement(); result[i] = el
RECURSIVE readDense(_, _, _, _)
readDense(d, id, i, size) ==
    IF Failed(d) \/ i >= size THEN d
    ELSE LET d1 == readElement(d)
         IN  readDense(DictSet(d1, id, VInt(i), d1.ret), id, i + 1, size)

\* the array is registered after its elements are read
readArray_key_late(d2, size) ==
    IF Failed(d2) THEN d2
    ELSE IF d2.ret = VStr(<<>>)
    THEN Ret(addObject(readListItems(Alloc(d2, OList(<<>>)), NewId(d2), 0, size),
                       NewId(d2)),
             VObj(NewId(d2)))
    ELSE Ret(addObject(readDense(readPairs(Alloc(d2, ODict(<<>>, <<>>)),
                                           NewId(d2), d2.ret),
                                 NewId(d2), 0, size),
                       NewId(d2)),
             VObj(NewId(d2)))

\* Decoder.readArray from "key = self.readString()" on; d2 is the state
\* after it
readArray_key(d2, size) ==
    IF Failed(d2) THEN d2
    ELSE IF d2.ret = VStr(<<>>)
    THEN Ret(readListItems(addObject(Alloc(d2, OList(<<>>)), NewId(d2)),
                           NewId(d2), 0, size),
             VObj(NewId(d2)))
    ELSE Ret(readDense(readPairs(addObject(Alloc(d2, ODict(<<>>, <<>>)), NewId(d2)),
                                 NewId(d2), d2.ret),
                       NewId(d2), 0, size),
             VObj(NewId(d2)))

\* Decoder.readArray
readArray(d) ==
    LET d1 == readInteger(d, FALSE)
    IN  IF Failed(d1) THEN d1
        ELSE IF d1.ret.n % 2 = 0 THEN getObject(d1, Shr(d1.ret.n, 1))
        ELSE readArray_key(readString(d1), Shr(d1.ret.n, 1))

\* Decoder._readStatic
RECURSIVE _readStatic(_, _, _, _)
_readStatic(d, key, id, i) ==
    IF Failed(d) THEN d
    ELSE IF ~d.class_ref[key].has_static_properties THEN Raise(d, "AttributeError")
    ELSE IF i > Len(d.class_ref[key].static_properties) THEN d
    ELSE LET d1 == readElement(d)
         IN  _readStatic(AttrSet(d1, id, d1.class_ref[key].static_properties[i],
                                 d1.ret),
                         key, id, i + 1)

\* Decoder._readDynamic; attr is the name read last
RECURSIVE _readDynamic(_, _, _)
_readDynamic_attr(dn, id) == _readDynamic(dn, id, dn.ret)

_readDynamic(d, id, attr) ==
    IF Failed(d) \/ attr = VNull \/ attr = VStr(<<>>) THEN d
    ELSE LET d1 == readElement(d)
         IN  _readDynamic_attr(readString(AttrSet(d1, id, attr, d1.ret)), id)

\* Decoder.readObject, "if use_proxies is True: obj = self.readProxy(obj)"
readObject_done(done, id) ==
    IF opts.use_proxies THEN readProxy(Ret(done, VObj(id))) ELSE Ret(done, VObj(id))

\* obj.__readamf__(DataInput(self)): the classes that have one read one
\* element (DataInput.readObject)
readObject_external(dx, id) ==
    readObject_done(IF Failed(dx) THEN dx
                    ELSE [dx EXCEPT !.heap[id].items = <<dx.ret>>],
                    id)

\* self._readStatic(class_def, obj_attrs), self._readDynamic(...) and
\* alias.applyAttributes(obj, obj_attrs)
readObject_attrs(d3, key, id, encoding) ==
    applyAttributes(IF encoding = ENC_DYNAMIC
                    THEN _readDynamic_attr(readString(_readStatic(d3, key, id, 1)), id)
                    ELSE _readStatic(d3, key, id, 1),
                    id)

\* Decoder.readObject, from "if class_def.encoding in ..." on
readObject_body(d2, key, id, class_def) ==
    IF class_def.encoding \in {ENC_EXTERNAL, ENC_PROXY}
    THEN IF class_def.alias.klass \in {K_EXTERNAL, K_ARRAYCOLLECTION, K_OBJECTPROXY}
         THEN readObject_external(readElement(d2), id)
         ELSE Raise(d2, "AttributeError")
    ELSE IF class_def.encoding \in {ENC_DYNAMIC, ENC_STATIC}
    THEN readObject_done(readObject_attrs(NewAttrs(d2, id), key, id, class_def.encoding),
                         id)
    ELSE Raise(d2, "DecodeError")

\* Decoder.readObject, from "alias = class_def.alias" on; d1 is the state
\* after _getClassDefinition
readObject_def(d1) ==
    IF Failed(d1) THEN d1
    ELSE IF d1.ret = VNull THEN Raise(d1, "AttributeError")
    ELSE readObject_body(
             addObject(Alloc(d1, OInst(d1.class_ref[d1.ret.n].alias.klass, <<>>, <<>>)),
                       NewId(d1)),
             d1.ret.n, NewId(d1), d1.class_ref[d1.ret.n])

readObject_any(d2) ==
    \* None is returned like any object
    IF opts.use_proxies THEN readProxy(d2) ELSE d2

\* Decoder.readObject, from "obj = self.context.getObject(ref >> 1)" on; d2
\* is the state after it
readObject_got(d2) ==
    IF d2.ret = VNull THEN Raise(d2, "ReferenceError")
    ELSE IF opts.use_proxies THEN readProxy(d2) ELSE d2

\* Decoder.readObject
readObject(d) ==
    LET d1 == readInteger(d, FALSE)
    IN  IF Failed(d1) THEN d1
        ELSE IF d1.ret.n % 2 = 0 THEN readObject_got(getObject(d1, Shr(d1.ret.n, 1)))
        ELSE readObject_def(_getClassDefinition(d1, Shr(d1.ret.n, 1)))

\* codec.Decoder.readElement: the handler is chosen by the marker (type_map)
readElement(d) ==
    LET d1 == Consume(d, 1)
        t == d.rest[1]
    IN  IF Failed(d) THEN d
        ELSE IF d.rest = <<>> THEN Raise(d, "EOStream")
        ELSE CASE t = TYPE_UNDEFINED -> Ret(d1, VUndefined)
               [] t = TYPE_NULL -> Ret(d1, VNull)
               [] t = TYPE_BOOL_FALSE -> Ret(d1, VBool(FALSE))
               [] t = TYPE_BOOL_TRUE -> Ret(d1, VBool(TRUE))
               [] t = TYPE_INTEGER -> readInteger(d1, TRUE)
               [] t = TYPE_NUMBER -> readNumber(d1)
               [] t = TYPE_STRING -> readUnicode(d1)
               [] t = TYPE_XML -> _readXML(d1, TRUE)
               [] t = TYPE_DATE -> readDate(d1)
               [] t = TYPE_ARRAY -> readArray(d1)
               [] t = TYPE_OBJECT -> readObject(d1)
               [] t = TYPE_XMLSTRING -> _readXML(d1, FALSE)
               [] t = TYPE_BYTEARRAY -> readByteArray(d1)
               [] OTHER -> Raise(d1, "DecodeError")

(***************************************************************************)
(* The host objects the Encoder is given (the heap of the initial state),  *)
(* the values written at top level and the byte strings the Decoder reads. *)
(***************************************************************************)
S_xml == <<60, 97, 47, 62>>      \* "<a/>"

Arena ==
    << OList(<<VStr(S_a), VStr(S_a)>>),                        \*  1  ["a", "a"]
       ODate(1000),                                            \*  2
       OList(<<VObj(2), VObj(2), VObj(3)>>),                   \*  3  [d, d, self]
       ODict(<<VStr(S_a), VInt(2)>>, <<VInt(1), VStr(S_x)>>),  \*  4  {"a": 1, 2: "x"}
       ODict(<<VInt(1), VInt(0)>>, <<VStr(S_b), VStr(S_a)>>),  \*  5  {1: "b", 0: "a"}
       ODict(<<VStr(S_a), VStr(<<>>)>>, <<VInt(1), VInt(2)>>), \*  6  {"a": 1, "": 2}
       OBytes(<<104, 105>>),                                   \*  7  ByteArray("hi")
       OXml(S_xml),                                            \*  8  <a/>
       OXml(S_xml),                                            \*  9  another <a/>
       OInst(K_STATIC, <<VStr(S_x)>>, <<VInt(1)>>),            \* 10
       OInst(K_STATIC, <<VStr(S_x)>>, <<VObj(10)>>),           \* 11
       OInst(K_DYNAMIC, <<VStr(S_y), VStr(S_x)>>, <<VInt(2), VStr(S_y)>>),  \* 12
       OInst(K_DYNAMIC, <<VStr(S_x)>>, <<VNull>>),             \* 13
       OInst(K_ASOBJECT, <<VStr(S_a)>>, <<VObj(14)>>),         \* 14  o.a = o
       [OInst(K_EXTERNAL, <<>>, <<>>) EXCEPT !.items = <<VObj(7)>>],  \* 15
       OTime,                                                  \* 16
       ODict(<<VInt(0), VInt(2)>>, <<VStr(S_a), VStr(S_b)>>),  \* 17  {0: "a", 2: "b"}
       ODict(<<VStr(S_b)>>, <<VObj(8)>>),                      \* 18  {"b": <a/>}
       OList(<<VObj(8), VObj(9)>>)                             \* 19  [<a/>, <a/>]
    >>

Primitives ==
    {VNull, VInt(0 - 1), VInt(MAX_29B_INT), VInt(MAX_29B_INT + 1), VInt(MIN_29B_INT),
     VInt(MIN_29B_INT - 1), VLong(1), VStr(S_a), VStr(<<>>), VStr(S_xml)}

\* what writeElement is called with: a primitive or any object of the heap
TopValues == Primitives \cup {VObj(id) : id \in 1..Len(heap)}

\* what the Decoder is given to read
Inputs ==
    { <<TYPE_OBJECT, 2>>,                       \* Object, reference to object 1
      <<TYPE_OBJECT, 0>>,                       \* Object, reference to object 0
      <<TYPE_XML, 9, 60, 97, 47, 62>>,          \* legacy XMLDocument "<a/>"
      <<TYPE_XMLSTRING, 9, 60, 97, 47, 62>>,    \* XML "<a/>"
      <<TYPE_STRING, 3, 97>>,                   \* "a"
      <<TYPE_STRING, 1>>,                       \* ""
      <<TYPE_STRING, 0>>,                       \* string reference 0
      <<TYPE_ARRAY, 3, 3, 97, 4, 1, 1, 6, 0>>,  \* mixed array {"a": 1, 0: "a"}
      <<TYPE_ARRAY, 5, 1, 4, 1, 4, 2>>,         \* list [1, 2]
      <<TYPE_ARRAY, 3, 3, 48, 4, 1, 3, 48, 4, 2, 1, 4, 3>>,  \* {"0": 1, "0": 2, 0: 3}
      <<TYPE_ARRAY, 2>>,                        \* Array, reference to object 1
      <<TYPE_OBJECT, 19, 3, 65, 3, 120, 4, 5>>, \* "A" instance, static x = 5
      <<TYPE_OBJECT, 11, 3, 90, 1>>,            \* dynamic instance of unknown "Z"
      <<TYPE_OBJECT, 5, 4, 7>>,                 \* instance by class reference 1
      <<TYPE_DATE, 2>>,                         \* Date, reference to object 1
      <<TYPE_DATE, 1, 64, 143, 64, 0, 0, 0, 0, 0>>,  \* Date, 1000 ms
      <<TYPE_BYTEARRAY, 5, 104, 105>> }         \* ByteArray "hi"

\* the options a codec has when none is given
DefaultOptions ==
    [use_proxies |-> FALSE, string_references |-> TRUE, strict |-> FALSE,
     timezone_offset |-> [set |-> FALSE, ms |-> 0]]

OptionSets ==
    { DefaultOptions,
      [use_proxies |-> TRUE, string_references |-> TRUE, strict |-> FALSE,
       timezone_offset |-> [set |-> FALSE, ms |-> 0]],
      [use_proxies |-> FALSE, string_references |-> FALSE, strict |-> TRUE,
       timezone_offset |-> [set |-> TRUE, ms |-> 300]] }

(***************************************************************************)
(* Bounds of the model                                                     *)
(***************************************************************************)
\* the integers tried lie within IntSpread of a length or range boundary
IntSpread == 6

\* operations per run
MaxOps == 2

\* the depth to which values are compared
MaxDepth == 3

(***************************************************************************)
(* Specification Spec: an Encoder and a Decoder over one Context.          *)
(* last records the operation done last: its argument, the Context and     *)
(* the length of the stream before it, the exception it raised, its log    *)
(* and what it returned.  last.sess holds the values written so far while  *)
(* the stream is the output of writes alone on a Context that was new.     *)
(***************************************************************************)
\* the integer codec at rest
U29Idle == [pc |-> "idle", n |-> 0, tail |-> <<>>, ok |-> FALSE, bytes |-> <<>>,
            sok |-> FALSE, sval |-> 0, spos |-> 0,
            uok |-> FALSE, uval |-> 0, upos |-> 0]

LastBlank ==
    [op |-> "init", arg |-> VNull, input |-> <<>>, pre |-> NewContext, n0 |-> 0,
     err |-> NoErr, log |-> <<>>, ret |-> VNull, derr |-> NoErr, rets |-> <<>>,
     dheap |-> <<>>, fresh |-> TRUE, sess |-> <<>>]

Init ==
    /\ u29 = U29Idle
    /\ heap = Arena
    /\ ctx = NewContext
    /\ stream = <<>>
    /\ opts \in OptionSets
    /\ last = LastBlank
    /\ ops = 0

\* the state a handler starts from
EncState == ctx @@ [stream |-> stream, err |-> NoErr, log |-> <<>>]
DecState(c, input, h) ==
    c @@ [stream |-> <<>>, rest |-> input, heap |-> h, tmp |-> EmptyFn,
          ret |-> VNull, err |-> NoErr, log |-> <<>>]

\* the Context part of a handler's state
CtxOf(st) ==
    [objects |-> st.objects, strings |-> st.strings, classes |-> st.classes,
     class_ref |-> st.class_ref, legacy_xml |-> st.legacy_xml,
     class_idx |-> st.class_idx]

\* encoder.writeElement(v); st is the handler's state when it returns
EncWrite_done(v, st) ==
    /\ ctx' = CtxOf(st)
    /\ stream' = st.stream
    /\ last' = [LastBlank EXCEPT !.op = "write", !.arg = v, !.pre = ctx,
                   !.n0 = Len(stream), !.err = st.err, !.log = st.log,
                   !.fresh = last.fresh,
                   !.sess = IF last.fresh THEN Append(last.sess, v) ELSE <<>>]

EncWrite(v) ==
    /\ ops < MaxOps
    /\ EncWrite_done(v, writeElement(EncState, v, "none"))
    /\ ops' = ops + 1
    /\ UNCHANGED <<u29, heap, opts>>

\* decoder.readElement() on a stream holding input; on IOError the stream
\* is wound back, the Context keeps what the read did to it
DecRead_done(input, d) ==
    /\ ctx' = CtxOf(d)
    /\ heap' = d.heap
    /\ last' = [LastBlank EXCEPT !.op = "read", !.input = input, !.pre = ctx,
                   !.n0 = IF d.err = "IOError" THEN 0 ELSE Len(d.stream),
                   !.err = d.err, !.log = d.log,
                   !.ret = IF Failed(d) THEN VNull ELSE d.ret,
                   !.fresh = FALSE]

DecRead(input) ==
    /\ ops < MaxOps
    /\ DecRead_done(input, readElement(DecState(ctx, input, heap)))
    /\ ops' = ops + 1
    /\ UNCHANGED <<u29, stream, opts>>

\* context.clear()
Clear ==
    /\ ops < MaxOps
    /\ ctx' = ContextClear(ctx)
    /\ last' = [LastBlank EXCEPT !.op = "clear", !.pre = ctx, !.fresh = FALSE]
    /\ ops' = ops + 1
    /\ UNCHANGED <<u29, heap, stream, opts>>

\* decode(stream): a Decoder with a Context of its own reads the elements of
\* the Encoder's stream until EOStream
RECURSIVE decode(_, _)
decode_1(d1, rets) ==
    IF Failed(d1)
    THEN [d1 EXCEPT !.ret = [t |-> "rets", n |-> 0, s |-> rets],
                    !.err = IF d1.err = "EOStream" THEN NoErr ELSE d1.err]
    ELSE decode(d1, Append(rets, d1.ret))

decode(d, rets) == decode_1(readElement([d EXCEPT !.log = <<>>]), rets)

DecodeFresh_done(d) ==
    last' = [last EXCEPT !.op = "decode", !.derr = d.err, !.rets = d.ret.s,
                !.dheap = d.heap, !.pre = CtxOf(d)]

DecodeFresh ==
    /\ last.op = "write"
    /\ DecodeFresh_done(decode(DecState(NewContext, stream, heap), <<>>))
    /\ UNCHANGED <<u29, heap, ctx, stream, opts, ops>>

Next ==
    \/ \E v \in TopValues : EncWrite(v)
    \/ \E input \in Inputs : DecRead(input)
    \/ Clear
    \/ DecodeFresh

Spec == Init /\ [][Next]_vars

(***************************************************************************)
(* Properties of Spec                                                      *)
(***************************************************************************)
\* the bytes the last write added to the stream
Emitted == SubSeq(stream, last.n0 + 1, Len(stream))

\* the stream holds the bytes b right after position at
BytesAt(at, b) ==
    /\ at + Len(b) <= Len(stream)
    /\ SubSeq(stream, at + 1, at + Len(b)) = b

\* the events of the last operation's log before event i
EarlierEvents(i, ev) == {j \in 1..(i - 1) : last.log[j].ev = ev}

\* the markers an object of kind k is written with
KindMarkers(k) ==
    CASE k \in {"date", "time"} -> {TYPE_DATE}
      [] k \in {"list", "dict"} -> {TYPE_ARRAY}
      [] k = "bytearray" -> {TYPE_BYTEARRAY}
      [] k = "xml" -> {TYPE_XML, TYPE_XMLSTRING}
      [] OTHER -> {TYPE_OBJECT}

\* the marker a value is written with when proxies are off
ValueMarkers(v) ==
    CASE v.t = "undefined" -> {TYPE_UNDEFINED}
      [] v.t = "null" -> {TYPE_NULL}
      [] v.t = "true" -> {TYPE_BOOL_TRUE}
      [] v.t = "false" -> {TYPE_BOOL_FALSE}
      [] v.t = "int" -> {TYPE_INTEGER, TYPE_NUMBER}
      [] v.t = "number" -> {TYPE_NUMBER}
      [] v.t = "str" -> {TYPE_STRING}
      [] v.t = "obj" -> KindMarkers(Obj(v.n).k)
      [] OTHER -> {}

\* a value built from integers, strings, lists, mappings with string and
\* integer keys, dates, byte arrays and XML documents, to the depth fuel
RECURSIVE Plain(_, _)
Plain(v, fuel) ==
    /\ fuel > 0
    /\ \/ v.t \in {"int", "str"}
       \/ /\ v.t = "obj"
          /\ v.n \in 1..Len(Arena)
          /\ \/ Arena[v.n].k \in {"date", "bytearray", "xml"}
             \/ /\ Arena[v.n].k \in {"list", "dict"}
                /\ \A i \in 1..Len(Arena[v.n].keys) :
                      \/ Arena[v.n].keys[i].t = "int"
                      \/ Arena[v.n].keys[i].t = "str" /\ Arena[v.n].keys[i].s # <<>>
                /\ \A i \in 1..Len(Arena[v.n].items) : Plain(Arena[v.n].items[i], fuel - 1)

\* the value r, of the heap h the Decoder built, is structurally equal to
\* the host value v: numbers by value, strings, dates, byte arrays and XML
\* by content, lists item by item, mappings key by key
RECURSIVE StructEq(_, _, _, _)
StructEq(v, r, h, fuel) ==
    /\ fuel > 0
    /\ \/ v.t \in {"int", "number"} /\ r.t \in {"int", "number"} /\ r.n = v.n /\ r.s = <<>>
       \/ v.t \notin {"int", "number", "obj"} /\ r = v
       \/ /\ v.t = "obj" /\ r.t = "obj"
          /\ r.n \in 1..Len(h)
          /\ h[r.n].k = Arena[v.n].k
          /\ CASE Arena[v.n].k = "date" -> h[r.n].n = Arena[v.n].n
               [] Arena[v.n].k \in {"bytearray", "xml"} -> h[r.n].s = Arena[v.n].s
               [] Arena[v.n].k = "list" ->
                    /\ Len(h[r.n].items) = Len(Arena[v.n].items)
                    /\ \A i \in 1..Len(Arena[v.n].items) :
                          StructEq(Arena[v.n].items[i], h[r.n].items[i], h, fuel - 1)
               [] Arena[v.n].k = "dict" ->
                    /\ {h[r.n].keys[i] : i \in 1..Len(h[r.n].keys)}
                         = {Arena[v.n].keys[i] : i \in 1..Len(Arena[v.n].keys)}
                    /\ Len(h[r.n].keys) = Len(Arena[v.n].keys)
                    /\ \A i \in 1..Len(Arena[v.n].keys) :
                          \A j \in 1..Len(h[r.n].keys) :
                             h[r.n].keys[j] = Arena[v.n].keys[i] =>
                                StructEq(Arena[v.n].items[i], h[r.n].items[j], h, fuel - 1)
               [] OTHER -> FALSE

\* C1 (as claimed): a Decoder on a new Context reads, from the bytes an
\* Encoder on a new Context wrote for a value v built from integers, strings,
\* lists, mappings with string and integer keys, dates, byte arrays and XML
\* documents, a value structurally equal to v.
RoundTrip ==
    (/\ last.op = "decode"
     /\ last.fresh
     /\ Len(last.sess) = 1
     /\ opts = DefaultOptions
     /\ Plain(last.sess[1], MaxDepth)) =>
        /\ last.err = NoErr
        /\ last.derr = NoErr
        /\ Len(last.rets) = 1
        /\ StructEq(last.sess[1], last.rets[1], last.dheap, MaxDepth)

\* C2 (as claimed): with proxies disabled, an object is registered, and its
\* inline value form written, only when the object table does not hold it
\* yet, at the next free index; a write of an object the table holds emits
\* the type marker and U29(idx << 1), idx being the index the object was
\* registered at, and nothing else when the object is the value written.
IdentityOnEncode ==
    (last.op = "write" /\ ~opts.use_proxies) =>
        /\ \A i, j \in 1..Len(ctx.objects) : ctx.objects[i] = ctx.objects[j] => i = j
        /\ \A i \in 1..Len(last.log) :
              /\ last.log[i].ev = "obj_add" =>
                    /\ last.log[i].idx
                         = Len(last.pre.objects) + Cardinality(EarlierEvents(i, "obj_add"))
                    /\ ctx.objects[last.log[i].idx + 1] = last.log[i].id
                    /\ stream[last.log[i].at] \in KindMarkers(Obj(last.log[i].id).k)
                    /\ ~BytesAt(last.log[i].at, encode_int(Shl(last.log[i].idx, 1)).bytes)
              /\ last.log[i].ev = "obj_ref" =>
                    /\ ctx.objects[last.log[i].idx + 1] = last.log[i].id
                    /\ \/ last.log[i].idx < Len(last.pre.objects)
                       \/ \E j \in EarlierEvents(i, "obj_add") :
                             last.log[j].id = last.log[i].id
                    /\ stream[last.log[i].at] \in KindMarkers(Obj(last.log[i].id).k)
                    /\ BytesAt(last.log[i].at, encode_int(Shl(last.log[i].idx, 1)).bytes)
        /\ \A id \in 1..Len(heap) :
              (/\ last.arg = VObj(id)
               /\ \E i \in 1..Len(last.pre.objects) : last.pre.objects[i] = id
               /\ Obj(id).k # "time") =>
                  /\ last.err = NoErr
                  /\ ctx = last.pre
                  /\ Len(Emitted) >= 2
                  /\ Emitted[1] \in KindMarkers(Obj(id).k)
                  /\ SubSeq(Emitted, 2, Len(Emitted))
                       = encode_int(Shl(getReferenceTo(last.pre.objects, id), 1)).bytes

\* a key of the mapping is the empty string
HasEmptyKey(o) == o.k = "dict" /\ \E i \in 1..Len(o.keys) : o.keys[i] = VStr(<<>>)

\* C6: writing a mapping that has the empty string as a key raises
\* EncodeError, writes no byte and leaves the Context as it was, whatever
\* the use_proxies setting.
EmptyKeyRule ==
    (last.op = "write" /\ last.arg.t = "obj" /\ HasEmptyKey(Obj(last.arg.n))) =>
        /\ last.err = "EncodeError"
        /\ Emitted = <<>>
        /\ ctx = last.pre

EmptyKeyWitness ==
    /\ last.op = "write"
    /\ last.arg = VObj(6)
    /\ opts.use_proxies
    /\ last.err = "EncodeError"
    /\ last.n0 > 0
    /\ last.pre.objects # <<>>

\* the length k of the run 0, 1, ..., k-1 among the integer keys
RECURSIVE RunLength(_, _)
RunLength(keys, k) ==
    IF \E i \in 1..Len(keys) : keys[i] = VInt(k) THEN RunLength(keys, k + 1) ELSE k

\* C7 (as claimed): the element count in the header of a mapping written
\* inline is the length k of the zero-based contiguous run of its integer
\* keys, the other integer keys being written as string keys.
KeyPartition ==
    (/\ last.op = "write"
     /\ ~opts.use_proxies
     /\ last.arg.t = "obj"
     /\ Obj(last.arg.n).k = "dict"
     /\ \A i \in 1..Len(last.pre.objects) : last.pre.objects[i] # last.arg.n
     /\ last.err = NoErr) =>
        /\ Emitted[1] = TYPE_ARRAY
        /\ Emitted[2] = 2 * RunLength(Obj(last.arg.n).keys, 0) + 1
        /\ PartitionKeys(Obj(last.arg.n).keys).int_keys
             = [i \in 1..RunLength(Obj(last.arg.n).keys, 0) |-> i - 1]

\* the strings interned before event i of the last write
InternedBefore(i) ==
    {last.pre.strings[j] : j \in 1..Len(last.pre.strings)}
        \cup {last.log[j].s : j \in {x \in EarlierEvents(i, "str_inline") :
                                       last.log[x].idx # 0 - 1}}

\* C8: _writeString emits U29(ref << 1) exactly when string_references is
\* enabled and an equal non-empty string was interned before, ref being the
\* index of that string in the table (the index of its first interning when
\* the table holds it once); otherwise it emits U29((len << 1) | 1) and the
\* bytes; with string_references disabled a write adds no string.
StringReferenceEmission ==
    (last.op = "write") =>
        /\ ~opts.string_references => ctx.strings = last.pre.strings
        /\ \A i \in 1..Len(last.log) :
              last.log[i].ev \in {"str_ref", "str_inline"} =>
                 /\ last.log[i].ev = "str_ref"
                      <=> /\ opts.string_references
                          /\ last.log[i].s # <<>>
                          /\ last.log[i].s \in InternedBefore(i)
                 /\ last.log[i].ev = "str_ref" =>
                       /\ ctx.strings[last.log[i].idx + 1] = last.log[i].s
                       /\ (\A j, k \in 1..Len(ctx.strings) :
                              ctx.strings[j] = ctx.strings[k] => j = k) =>
                             last.log[i].idx
                               = (CHOOSE j \in 1..Len(ctx.strings) :
                                     ctx.strings[j] = last.log[i].s) - 1
                       /\ BytesAt(last.log[i].at,
                                  encode_int(Shl(last.log[i].idx, 1)).bytes)
                 /\ last.log[i].ev = "str_inline" =>
                       /\ BytesAt(last.log[i].at,
                                  encode_int(Shl(Len(last.log[i].s), 1) + 1).bytes
                                     \o last.log[i].s)
                       /\ (opts.string_references /\ last.log[i].s # <<>>) =>
                             /\ last.log[i].idx >= Len(last.pre.strings)
                             /\ ctx.strings[last.log[i].idx + 1] = last.log[i].s

\* the list ["a", "a"]: the second "a" is the reference to the first
StringReferenceWitness ==
    /\ last.op = "write"
    /\ opts.string_references
    /\ ~opts.use_proxies
    /\ last.arg = VObj(1)
    /\ last.pre.strings = <<S_xml>>
    /\ Emitted = <<TYPE_ARRAY, 5, 1, TYPE_STRING, 3, 97, TYPE_STRING, 2>>

\* the class of the object of event i was written inline by the Encoder
\* before: by an earlier write, or earlier in the last one
EmittedBefore(i) ==
    \/ /\ Obj(last.log[i].id).cls \in DOMAIN last.pre.classes
       /\ last.pre.class_ref[last.pre.classes[Obj(last.log[i].id).cls]].reference.k
            = "bytes"
    \/ \E j \in EarlierEvents(i, "cls_inline") :
          Obj(last.log[j].id).cls = Obj(last.log[i].id).cls

\* the first thing written after the class of the object id: the value of
\* the first static property, if the class has static properties
FirstStaticValue(id) ==
    DictGet(Obj(id), VStr(Registry[Obj(id).cls].static_attrs[1])).v

UnknownObjectReference(input, objects) ==
    /\ Len(input) >= 2
    /\ input[1] = TYPE_OBJECT
    /\ decode_int(input, 2, FALSE).ok
    /\ decode_int(input, 2, FALSE).value % 2 = 0
    /\ Shr(decode_int(input, 2, FALSE).value, 1) >= Len(objects)

\* C10: reading an Object that is a reference to an index not in the object
\* table raises ReferenceError and leaves the tables of the Context as they
\* were.
UnknownReferenceRaises ==
    (last.op = "read" /\ UnknownObjectReference(last.input, last.pre.objects)) =>
        /\ last.err = "ReferenceError"
        /\ ctx = last.pre

UnknownReferenceWitness ==
    /\ last.op = "read"
    /\ last.input = <<TYPE_OBJECT, 2>>
    /\ Len(last.pre.objects) = 1
    /\ last.err = "ReferenceError"
    /\ ctx = last.pre

\* the input is one reference form whose index has no target: an object
\* reference under the Array, Date, XMLDocument, XMLString or ByteArray
\* marker, a string reference, or a class reference inside an Object
UnknownReferenceForm(input, pre) ==
    /\ Len(input) >= 2
    /\ decode_int(input, 2, FALSE).ok
    /\ \/ /\ input[1] \in {TYPE_ARRAY, TYPE_DATE, TYPE_XML, TYPE_XMLSTRING,
                           TYPE_BYTEARRAY}
          /\ decode_int(input, 2, FALSE).value % 2 = 0
          /\ Shr(decode_int(input, 2, FALSE).value, 1) >= Len(pre.objects)
       \/ /\ input[1] = TYPE_STRING
          /\ decode_int(input, 2, FALSE).value % 2 = 0
          /\ Shr(decode_int(input, 2, FALSE).value, 1) >= Len(pre.strings)
       \/ /\ input[1] = TYPE_OBJECT
          /\ decode_int(input, 2, FALSE).value % 4 = 1
          /\ Shr(decode_int(input, 2, FALSE).value, 2) \notin DOMAIN pre.class_ref

\* C11 (as claimed): a read of a reference form whose index has no
\* registered target raises ReferenceError and returns no value.
UnknownReferenceFormsRaise ==
    (last.op = "read" /\ UnknownReferenceForm(last.input, last.pre)) =>
        last.err = "ReferenceError"

\* the class name of an Object whose traits are inline, read as the Decoder
\* reads it from the Context pre
TraitName(input, pre) ==
    readString(DecState(pre, SubSeq(input, decode_int(input, 2, FALSE).pos, Len(input)),
                        <<>>))

\* the input is an Object with inline traits whose class name no alias is
\* registered for
UnknownAliasTrait(input, pre) ==
    /\ Len(input) >= 2
    /\ input[1] = TYPE_OBJECT
    /\ decode_int(input, 2, FALSE).ok
    /\ decode_int(input, 2, FALSE).value % 4 = 3
    /\ ~Failed(TraitName(input, pre))
    /\ TraitName(input, pre).ret.t = "str"
    /\ TraitName(input, pre).ret.s # <<>>
    /\ ~get_class_alias_named(TraitName(input, pre).ret).found

\* C12: reading an inline trait whose class name is unknown to the registry
\* raises UnknownClassAlias under strict, the class tables and the object
\* table being as before; without strict the read goes on with a
\* TypedObject alias of that name, whose definition is registered under the
\* next class index.
UnknownAliasOnDecode ==
    (last.op = "read" /\ UnknownAliasTrait(last.input, last.pre)) =>
        /\ opts.strict =>
              /\ last.err = "UnknownClassAlias"
              /\ ctx.classes = last.pre.classes
              /\ ctx.class_ref = last.pre.class_ref
              /\ ctx.class_idx = last.pre.class_idx
              /\ ctx.objects = last.pre.objects
        /\ ~opts.strict =>
              /\ last.err # "UnknownClassAlias"
              /\ last.err = NoErr =>
                    /\ ctx.class_idx = last.pre.class_idx + 1
                    /\ DOMAIN ctx.class_ref = DOMAIN last.pre.class_ref
                                                 \cup {last.pre.class_idx}
                    /\ ctx.class_ref[last.pre.class_idx].alias
                         = TypedObjectClassAlias(TraitName(last.input, last.pre).ret)
                    /\ ctx.class_ref[last.pre.class_idx].reference
                         = RefInt(last.pre.class_idx)
                    /\ ctx.classes[K_TYPED] = last.pre.class_idx
                    /\ last.ret.t = "obj"
                    /\ heap[last.ret.n].cls = K_TYPED

\* strict: an instance of the unknown class "Z" read on a Context that
\* holds a class and an object already
UnknownAliasWitness ==
    /\ last.op = "read"
    /\ opts.strict
    /\ last.input = <<TYPE_OBJECT, 11, 3, 90, 1>>
    /\ last.pre.class_idx = 1
    /\ last.pre.objects # <<>>
    /\ last.err = "UnknownClassAlias"
    /\ ctx.class_ref = last.pre.class_ref

\* the last write was writeInteger(n), n an integer a double holds
IntegerWritten == last.op = "write" /\ last.arg.t = "int"

XMLWritten ==
    {i \in 1..Len(last.log) :
        /\ last.op = "write"
        /\ last.log[i].ev \in {"obj_add", "obj_ref"}
        /\ last.log[i].id \in 1..Len(heap)
        /\ heap[last.log[i].id].k = "xml"}

InLegacyTable(c, id) == \E j \in 1..Len(c.legacy_xml) : c.legacy_xml[j] = id

LegacyMarkerRule ==
    \A i \in XMLWritten :
        /\ last.log[i].at >= 1
        /\ stream[last.log[i].at] =
              IF InLegacyTable(last.pre, last.log[i].id) THEN TYPE_XML ELSE TYPE_XMLSTRING

\* a step that changes the legacy-XML table is a clear() that empties it or
\* a read of a 0x07 element that appends the document it made
LegacyRegistration ==
    ctx'.legacy_xml # ctx.legacy_xml =>
        \/ last'.op = "clear" /\ ctx'.legacy_xml = <<>>
        \/ /\ last'.op = "read"
           /\ last'.err = NoErr
           /\ last'.input[1] = TYPE_XML
           /\ last'.ret.t = "obj"
           /\ last'.ret.n = Len(heap) + 1
           /\ heap'[last'.ret.n].k = "xml"
           /\ ctx'.legacy_xml = Append(ctx.legacy_xml, last'.ret.n)

\* C14: writeXML emits the marker 0x07 for an XML document exactly when the
\* document is in the Context's legacy-XML table, and 0x0B otherwise; a
\* document enters that table only when the Decoder reads it from a 0x07
\* element, and leaves it only by clear()
LegacyXMLMarker == [][LegacyRegistration /\ LegacyMarkerRule']_vars

\* a document read from a 0x07 element is written with the marker 0x07; it
\* is in the object table since that read, so a reference follows
LegacyXMLWitness ==
    /\ last.op = "write"
    /\ last.arg.t = "obj"
    /\ last.arg.n > Len(Arena)
    /\ InLegacyTable(last.pre, last.arg.n)
    /\ last.err = NoErr
    /\ Emitted = <<TYPE_XML, 0>>

\* the sequences that hold each element of the set S once
RECURSIVE Orderings(_)
Orderings(S) ==
    IF S = {} THEN {<<>>}
    ELSE UNION {{<<x>> \o q : q \in Orderings(S \ {x})} : x \in S}

\* the integers of the set S in ascending order
RECURSIVE Ascending(_)
Ascending(S) ==
    IF S = {} THEN <<>>
    ELSE LET m == CHOOSE x \in S : \A y \in S : x <= y
         IN  <<m>> \o Ascending(S \ {m})

\* for each key of ks in turn: the key as a string, then the value the
\* mapping o stores under the key
RECURSIVE PairsLayout(_, _, _, _)
PairsLayout(st, o, ks, i) ==
    IF i > Len(ks) THEN st
    ELSE PairsLayout(writeElement(_writeString(st, IF ks[i].t = "int"
                                                   THEN str(ks[i].n) ELSE ks[i].s),
                                  DictGet(o, ks[i]).v, "none"),
                     o, ks, i + 1)

\* the value the mapping o stores under each integer of ints in turn
RECURSIVE DenseLayout(_, _, _, _)
DenseLayout(st, o, ints, i) ==
    IF i > Len(ints) THEN st
    ELSE DenseLayout(writeElement(st, DictGet(o, VInt(ints[i])).v, "none"),
                     o, ints, i + 1)

\* the marker, the header with the count of ints, the pairs of ks, the
\* terminator 0x01, the values of ints
DictLayout(st, id, ks, ints) ==
    DenseLayout(Write(PairsLayout(_writeInteger(addObject(Write(st, <<TYPE_ARRAY>>), id),
                                                2 * Len(ints) + 1),
                                  Obj(id), ks, 1),
                      <<1>>),
                Obj(id), ints, 1)

\* the Encoder as the last operation found it
StateBefore ==
    last.pre @@ [stream |-> SubSeq(stream, 1, last.n0), err |-> NoErr, log |-> <<>>]

\* the last operation wrote, inline and without a proxy, a mapping whose
\* keys are integers and non-empty strings
DictWritten ==
    /\ last.op = "write"
    /\ ~opts.use_proxies
    /\ last.arg.t = "obj"
    /\ Obj(last.arg.n).k = "dict"
    /\ \A i \in 1..Len(last.pre.objects) : last.pre.objects[i] # last.arg.n
    /\ \A i \in 1..Len(Obj(last.arg.n).keys) :
          \/ Obj(last.arg.n).keys[i].t = "int"
          \/ Obj(last.arg.n).keys[i].t = "str" /\ Obj(last.arg.n).keys[i].s # <<>>

DictKeys(t) == {Obj(last.arg.n).keys[i] : i \in {j \in 1..Len(Obj(last.arg.n).keys) :
                                                Obj(last.arg.n).keys[j].t = t}}

\* the stream is as before the write, then the layout in which the integer
\* keys R are written as strings and the string-keyed pairs are in some order
DictLaidOut ==
    \E R \in SUBSET DictKeys("int") :
        \E ks \in Orderings(DictKeys("str") \cup R) :
            DictLayout(StateBefore, last.arg.n, ks,
                       Ascending({k.n : k \in DictKeys("int") \ R}))
                = [StateBefore EXCEPT !.stream = stream, !.objects = ctx.objects,
                                      !.strings = ctx.strings, !.classes = ctx.classes,
                                      !.class_ref = ctx.class_ref,
                                      !.class_idx = ctx.class_idx,
                                      !.log = DictLayout(StateBefore, last.arg.n, ks,
                                          Ascending({k.n : k \in DictKeys("int") \ R})).log]

\* C15 (as claimed): writeDict of a mapping whose keys are non-empty strings
\* and integers ends without error, having written each entry once: the
\* string-keyed pairs (integer keys written as strings among them, each with
\* the value stored under the original key), then 0x01, then the values of
\* the other integer keys in ascending order of key.
DictEntriesOnce == DictWritten => (last.err = NoErr /\ DictLaidOut)

CompositeMarkers ==
    {TYPE_ARRAY, TYPE_OBJECT, TYPE_DATE, TYPE_BYTEARRAY, TYPE_XML, TYPE_XMLSTRING}

\* the handle the last write registers for its argument: that of the proxy
\* when a list or dict is written with proxies on
WrittenHandle ==
    IF opts.use_proxies /\ Obj(last.arg.n).k \in {"list", "dict"}
    THEN 0 - last.arg.n ELSE last.arg.n

\* the last operation wrote a composite value that was not in the object
\* table, and got as far as its marker
CompositeWritten ==
    /\ last.op = "write"
    /\ last.arg.t = "obj"
    /\ \A i \in 1..Len(last.pre.objects) : last.pre.objects[i] # WrittenHandle
    /\ Emitted # <<>>

\* the last operation read, without error, a composite value in inline form
\* (every input has a header of one byte)
CompositeRead ==
    /\ last.op = "read"
    /\ last.err = NoErr
    /\ Len(last.input) >= 2
    /\ last.input[1] \in CompositeMarkers
    /\ last.input[2] < 128 /\ last.input[2] % 2 = 1

\* the events of the last operation that touch the object table
ObjectEvents == {i \in 1..Len(last.log) : last.log[i].ev \in {"obj_add", "obj_ref"}}

\* the first of them appends to the object table when the stream is at
\* position at
RegisteredAt(at) ==
    \E i \in ObjectEvents :
        /\ \A j \in ObjectEvents : i <= j
        /\ last.log[i].ev = "obj_add"
        /\ last.log[i].idx = Len(last.pre.objects)
        /\ last.log[i].at = at

\* the Encoder registers the value right after its marker
EncoderRegistersFirst ==
    CompositeWritten =>
        /\ Emitted[1] \in CompositeMarkers
        /\ RegisteredAt(last.n0 + 1)
        /\ \E i \in ObjectEvents : last.log[i].ev = "obj_add" /\ last.log[i].id = WrittenHandle

RECURSIVE SkipStrings(_, _, _)
SkipStrings(input, pos, n) ==
    IF n = 0 \/ pos >= Len(input) THEN pos
    ELSE IF input[pos + 1] % 2 = 1
    THEN SkipStrings(input, pos + 1 + (input[pos + 1] \div 2), n - 1)
    ELSE SkipStrings(input, pos + 1, n - 1)

\* the strings of the traits an Object header announces: none for a class
\* reference, else the class name and, unless externalizable, the names of
\* the static attributes
TraitStrings(h) ==
    IF h % 4 = 1 THEN 0
    ELSE IF h % 8 = 7 THEN 1
    ELSE 1 + (h \div 16)

\* where the Decoder stands when it registers the value read
DecoderRegistersAt ==
    CASE last.input[1] = TYPE_ARRAY -> SkipStrings(last.input, 2, 1)
      [] last.input[1] = TYPE_OBJECT ->
            SkipStrings(last.input, 2, TraitStrings(last.input[2]))
      [] OTHER -> Len(last.input)

SelfAt(id) ==
    IF Obj(id).k \in {"list", "object"}
    THEN {p \in 1..Len(Obj(id).items) : Obj(id).items[p] = VObj(id)}
    ELSE {}

\* the last write registered the handle h and later wrote a reference to it:
\* the marker, then the U29 of the index shifted left by one
WrittenBackReference(h) ==
    \E i, j \in ObjectEvents :
        /\ i < j
        /\ last.log[i].ev = "obj_add" /\ last.log[i].id = h
        /\ last.log[i].idx = Len(last.pre.objects)
        /\ last.log[j].ev = "obj_ref" /\ last.log[j].id = h
        /\ last.log[j].idx = last.log[i].idx
        /\ stream[last.log[j].at] = stream[last.log[i].at]
        /\ BytesAt(last.log[j].at, encode_int(2 * last.log[i].idx).bytes)

\* C17: the write of a list or object that holds itself ends, the inner
\* occurrence being written as a reference to the index the outer one was
\* registered at; a Decoder on a new Context reads from those bytes, without
\* error, a value that holds itself at the same position.
CyclesTerminate ==
    /\ (CompositeWritten /\ SelfAt(last.arg.n) # {}) =>
          /\ last.err = NoErr
          /\ WrittenBackReference(WrittenHandle)
    /\ (/\ last.op = "decode"
        /\ last.fresh
        /\ Len(last.sess) = 1
        /\ last.sess[1].t = "obj"
        /\ ~opts.use_proxies
        /\ SelfAt(last.sess[1].n) # {}) =>
          /\ last.derr = NoErr
          /\ Len(last.rets) = 1
          /\ last.rets[1].t = "obj"
          /\ last.dheap[last.rets[1].n].k = Obj(last.sess[1].n).k
          /\ \A p \in SelfAt(last.sess[1].n) :
                last.dheap[last.rets[1].n].items[p] = last.rets[1]

\* the list [d, d, self] was written and read back
CyclesWitness ==
    /\ last.op = "decode"
    /\ last.fresh
    /\ last.sess = <<VObj(3)>>
    /\ ~opts.use_proxies
    /\ stream = <<TYPE_ARRAY, 7, 1, TYPE_DATE, 1, 64, 143, 64, 0, 0, 0, 0, 0,
                  TYPE_DATE, 2, TYPE_ARRAY, 0>>
    /\ last.rets = <<VObj(Len(Arena) + 1)>>
    /\ last.dheap[Len(Arena) + 1].items[3] = VObj(Len(Arena) + 1)

NoEmptyString(c) == \A i \in 1..Len(c.strings) : c.strings[i] # <<>>

\* C18: the strings table never holds the empty string, neither the
\* Context's nor that of the Decoder that read the Encoder's stream; an
\* empty string is written as the one byte 0x01, not as a reference, and
\* leaves the Context as it was; a read of an inline string of length 0
\* returns the empty string and leaves the Context as it was.
EmptyStringNotInterned ==
    /\ NoEmptyString(ctx)
    /\ NoEmptyString(last.pre)
    /\ last.op = "write" =>
          /\ \A i \in 1..Len(last.log) :
                (last.log[i].ev \in {"str_ref", "str_inline"} /\ last.log[i].s = <<>>) =>
                    /\ last.log[i].ev = "str_inline"
                    /\ last.log[i].idx = 0 - 1
                    /\ BytesAt(last.log[i].at, <<1>>)
          /\ last.arg = VStr(<<>>) =>
                /\ last.err = NoErr
                /\ Emitted = <<TYPE_STRING, 1>>
                /\ ctx = last.pre
    /\ (/\ last.op = "read"
        /\ Len(last.input) >= 2
        /\ last.input[1] = TYPE_STRING
        /\ last.input[2] = 1) =>
          /\ last.err = NoErr
          /\ last.ret = VStr(<<>>)
          /\ last.n0 = 2
          /\ ctx = last.pre

\* the empty string is written when the table holds a string
EmptyStringWitness ==
    /\ last.op = "write"
    /\ last.arg = VStr(<<>>)
    /\ opts.string_references
    /\ last.pre.strings = <<S_a>>
    /\ Emitted = <<TYPE_STRING, 1>>
    /\ ctx.strings = <<S_a>>

\* the list old is the start of the list new
Extends(new, old) ==
    /\ Len(new) >= Len(old)
    /\ SubSeq(new, 1, Len(old)) = old

\* the index a ClassDefinition's reference stands for: the integer addClass
\* set, or the one in the bytes U29((index << 2) | 1) the Encoder put in
\* its place
ReferenceIndex(ref) ==
    IF ref.k = "int" THEN ref.n
    ELSE IF ref.k = "bytes" /\ decode_int(ref.s, 1, FALSE).ok
                            /\ decode_int(ref.s, 1, FALSE).value % 4 = 1
    THEN decode_int(ref.s, 1, FALSE).value \div 4
    ELSE 0 - 1

\* class_ref has the keys 0 .. class_idx - 1 and each definition records
\* the index it is filed under
ClassIndicesDense(c) ==
    /\ DOMAIN c.class_ref = 0..(c.class_idx - 1)
    /\ \A r \in DOMAIN c.class_ref : ReferenceIndex(c.class_ref[r].reference) = r
    /\ \A k \in DOMAIN c.classes : c.classes[k] \in DOMAIN c.class_ref

\* a step other than clear() keeps every entry of the strings, class and
\* legacy-XML tables where it was
TablesKept ==
    /\ Extends(ctx'.strings, ctx.strings)
    /\ Extends(ctx'.legacy_xml, ctx.legacy_xml)
    /\ ctx'.class_idx >= ctx.class_idx
    /\ DOMAIN ctx.classes \subseteq DOMAIN ctx'.classes
    /\ \A r \in DOMAIN ctx.class_ref :
          /\ r \in DOMAIN ctx'.class_ref
          /\ ctx'.class_ref[r].alias = ctx.class_ref[r].alias
          /\ ReferenceIndex(ctx'.class_ref[r].reference)
               = ReferenceIndex(ctx.class_ref[r].reference)

\* C19: between two calls of clear() the strings, class and legacy-XML
\* tables only grow, no entry moving or going; class_ref has the keys
\* 0 .. class_idx - 1, and the index a class definition records stays the
\* one it was filed under; clear() empties every table and sets class_idx
\* to 0.
TablesOnlyGrow ==
    [][/\ ClassIndicesDense(ctx')
       /\ IF last'.op = "clear" THEN ctx' = NewContext ELSE TablesKept]_vars

\* a second class was registered: the first kept its index
TablesGrowWitness ==
    /\ last.op = "write"
    /\ last.err = NoErr
    /\ last.pre.class_idx = 1
    /\ ctx.class_idx = 2
    /\ ctx.class_ref[0] = last.pre.class_ref[0]
    /\ ctx.class_ref[0].reference = RefBytes(<<1>>)
    /\ ctx.class_ref[1].reference = RefBytes(<<5>>)
    /\ Len(ctx.strings) > Len(last.pre.strings)

\* the classes the last write emitted in full: the events of its log
ClassesWritten == {i \in 1..Len(last.log) : last.log[i].ev = "cls_inline"}

\* the write put the header h of the class of event i where the event says
HeaderWritten(i, h) ==
    /\ encode_int(h).ok
    /\ last.log[i].s = encode_int(h).bytes
    /\ BytesAt(last.log[i].at, encode_int(h).bytes)

\* the Decoder that read the Encoder's stream holds, for the class of event
\* i, a definition with the encoding enc and attr_len n
HeaderParsed(i, enc, n) ==
    last.log[i].idx \in DOMAIN last.pre.class_ref =>
        /\ last.pre.class_ref[last.log[i].idx].encoding = enc
        /\ last.pre.class_ref[last.log[i].idx].attr_len = n

\* C21 (as claimed): a class written for the first time gets the header
\* U29((attrLen << 4) | (encoding << 2) | 3), attrLen being the number of
\* static attributes of the alias, whatever the encoding; the Decoder gets
\* the same encoding and the same attrLen from it.
TraitHeader ==
    /\ last.op = "write" =>
          \A i \in ClassesWritten :
              HeaderWritten(i, 16 * Len(ctx.class_ref[last.log[i].idx].alias.static_attrs)
                               + 4 * ctx.class_ref[last.log[i].idx].encoding + 3)
    /\ (last.op = "decode" /\ last.fresh) =>
          \A i \in ClassesWritten :
              HeaderParsed(i, ctx.class_ref[last.log[i].idx].encoding,
                           Len(ctx.class_ref[last.log[i].idx].alias.static_attrs))

\* the attrLen the header carries: none for an External class
HeaderAttrLen(def) ==
    IF def.encoding = ENC_EXTERNAL THEN 0 ELSE Len(def.alias.static_attrs)

\* C21 (amended): a class written for the first time gets the header
\* U29((attrLen << 4) | (encoding << 2) | 3), attrLen being the number of
\* static attributes of the alias for a Static or Dynamic class and 0 for
\* an External one; the Decoder gets the same encoding and that attrLen
\* from it.
TraitHeaderExternalBare ==
    /\ last.op = "write" =>
          \A i \in ClassesWritten :
              HeaderWritten(i, 16 * HeaderAttrLen(ctx.class_ref[last.log[i].idx])
                               + 4 * ctx.class_ref[last.log[i].idx].encoding + 3)
    /\ (last.op = "decode" /\ last.fresh) =>
          \A i \in ClassesWritten :
              HeaderParsed(i, ctx.class_ref[last.log[i].idx].encoding,
                           HeaderAttrLen(ctx.class_ref[last.log[i].idx]))

\* an External class with a static attribute was written, with the header
\* 0x07, and read back
TraitHeaderWitness ==
    /\ last.op = "decode"
    /\ last.fresh
    /\ last.sess = <<VObj(15)>>
    /\ last.derr = NoErr
    /\ ClassesWritten # {}
    /\ ctx.class_ref[0].attr_len = 1
    /\ ctx.class_ref[0].encoding = ENC_EXTERNAL
    /\ SubSeq(stream, 1, 2) = <<TYPE_OBJECT, 7>>
    /\ last.pre.class_ref[0].encoding = ENC_EXTERNAL
    /\ last.pre.class_ref[0].attr_len = 0

\* C22 (as claimed): an XML document that is not in the object table is
\* written as its marker, the header U29((length << 1) | 1) and the bytes of
\* its text; after an XML marker a header with the low bit 0 is the reference
\* U29(idx << 1) to a document the object table holds at idx.
XMLBodyInline ==
    \A i \in XMLWritten :
        /\ last.log[i].ev = "obj_add" =>
              /\ encode_int(2 * Len(heap[last.log[i].id].s) + 1).ok
              /\ BytesAt(last.log[i].at,
                         encode_int(2 * Len(heap[last.log[i].id].s) + 1).bytes
                             \o heap[last.log[i].id].s)
        /\ last.log[i].ev = "obj_ref" =>
              /\ BytesAt(last.log[i].at, encode_int(2 * last.log[i].idx).bytes)
              /\ last.log[i].idx < Len(ctx.objects)
              /\ ctx.objects[last.log[i].idx + 1] = last.log[i].id

\* the last operation read, without error, an Array in inline form
ArrayRead ==
    /\ CompositeRead
    /\ last.input[1] = TYPE_ARRAY
    /\ last.ret.t = "obj"

\* the Decoder of the last read after the header and the first key, the
\* heap being as it was before the read
AfterFirstKey ==
    readString(readInteger(Consume(DecState(last.pre, last.input,
                                            SubSeq(heap, 1, last.ret.n - 1)), 1),
                           FALSE))

\* the same Decoder with the result registered, as a list or a mixed array
AfterRegistration(o) == addObject(Alloc(AfterFirstKey, o), last.ret.n)

\* the values of the next n elements of the stream, and the Decoder after
RECURSIVE ElementsRead(_, _, _)
ElementsRead(d, n, acc) ==
    IF n = 0 \/ Failed(d) THEN [d |-> d, vals |-> acc]
    ELSE LET d1 == readElement(d)
         IN  ElementsRead(d1, n - 1, Append(acc, d1.ret))

\* the (key, value) pairs of the stream from the pair of the key on, up to
\* the empty key, and the Decoder after
RECURSIVE PairsRead(_, _, _, _)
PairsRead(d, key, ks, vs) ==
    IF Failed(d) \/ key = VNull \/ key = VStr(<<>>)
    THEN [d |-> d, keys |-> ks, vals |-> vs]
    ELSE LET d1 == readElement(d)
         IN  PairsRead(readString(d1), readString(d1).ret,
                       Append(ks, key), Append(vs, d1.ret))

\* the mapping o holds the entries (keys[i], vals[i]), a later entry
\* replacing an earlier one with the same key
HoldsEntries(o, keys, vals) ==
    /\ {o.keys[j] : j \in 1..Len(o.keys)} = {keys[i] : i \in 1..Len(keys)}
    /\ \A j, k \in 1..Len(o.keys) : o.keys[j] = o.keys[k] => j = k
    /\ Len(o.items) = Len(o.keys)
    /\ \A j \in 1..Len(o.keys) :
          \E i \in 1..Len(keys) :
              /\ keys[i] = o.keys[j]
              /\ \A i2 \in (i + 1)..Len(keys) : keys[i2] # keys[i]
              /\ o.items[j] = vals[i]

\* the mixed array o holds the pairs read and then the next size elements
\* under the indices 0 .. size - 1
HoldsPairsThenDense(o, pairs, size) ==
    HoldsEntries(o,
                 pairs.keys \o [i \in 1..size |-> VInt(i - 1)],
                 pairs.vals \o ElementsRead(pairs.d, size, <<>>).vals)

RECURSIVE WritesBefore(_, _)
WritesBefore(st, i) ==
    IF i >= Len(last.sess) THEN st
    ELSE WritesBefore(writeElement([st EXCEPT !.log = <<>>], last.sess[i], "none"), i + 1)

EarlierWritesDone ==
    WritesBefore(NewContext @@ [stream |-> <<>>, err |-> NoErr, log |-> <<>>], 1).err = NoErr

\* C24 (as claimed): when a Decoder on a new Context has read what an
\* Encoder with string references on wrote on a new Context, its strings
\* table holds the same strings at the same indices as the Encoder's, and
\* each string written is the string read.
StringTablesInStep ==
    (/\ last.op = "decode"
     /\ last.fresh
     /\ opts.string_references
     /\ last.err = NoErr
     /\ EarlierWritesDone) =>
        /\ last.derr = NoErr
        /\ last.pre.strings = ctx.strings
        /\ Len(last.rets) = Len(last.sess)
        /\ \A j \in 1..Len(last.sess) :
              last.sess[j].t = "str" => last.rets[j] = last.sess[j]

(***************************************************************************)
(* Specification SpecInt: the integer codec on one input.                  *)
(* u29.n is the integer, u29.tail the bytes that follow it in the stream.  *)
(***************************************************************************)
IntBoundaries == {0, 127, 16383, 2097151, MAX_29B_INT, 536870911, MIN_29B_INT}
IntInputs == {b + d : b \in IntBoundaries, d \in (0 - IntSpread)..IntSpread}
IntTails == {<<>>, <<129>>, <<255, 1>>}

InitInt ==
    /\ \E n \in IntInputs, t \in IntTails :
          u29 = [U29Idle EXCEPT !.pc = "start", !.n = n, !.tail = t]
    /\ heap = <<>>
    /\ ctx = NewContext
    /\ stream = <<>>
    /\ opts = DefaultOptions
    /\ last = LastBlank
    /\ ops = 0

\* encode_int(n)
IntEncode ==
    /\ u29.pc = "start"
    /\ LET e == encode_int(u29.n)
       IN  u29' = [u29 EXCEPT !.pc = "encoded", !.ok = e.ok, !.bytes = e.bytes]
    /\ UNCHANGED <<heap, ctx, stream, opts, last, ops>>

\* decode_int(stream, signed=True) over the encoded bytes and the tail
IntDecodeSigned ==
    /\ u29.pc = "encoded"
    /\ u29.ok
    /\ LET d == decode_int(u29.bytes \o u29.tail, 1, TRUE)
       IN  u29' = [u29 EXCEPT !.pc = "signed", !.sok = d.ok, !.sval = d.value,
                              !.spos = d.pos]
    /\ UNCHANGED <<heap, ctx, stream, opts, last, ops>>

\* decode_int(stream, signed=False) over the same bytes
IntDecodeUnsigned ==
    /\ u29.pc = "signed"
    /\ LET d == decode_int(u29.bytes \o u29.tail, 1, FALSE)
       IN  u29' = [u29 EXCEPT !.pc = "done", !.uok = d.ok, !.uval = d.value,
                              !.upos = d.pos]
    /\ UNCHANGED <<heap, ctx, stream, opts, last, ops>>

NextInt == IntEncode \/ IntDecodeSigned \/ IntDecodeUnsigned

SpecInt == InitInt /\ [][NextInt]_vars

\* C3: for every n in [-2^28, 2^28-1], encode_int(n) succeeds, and decode_int
\* with signed=True over its bytes returns n and stops right after them.
U29SignedRoundTrip ==
    (u29.n >= MIN_29B_INT /\ u29.n <= MAX_29B_INT) =>
        /\ u29.pc # "start" => u29.ok
        /\ u29.pc \in {"signed", "done"} =>
              /\ u29.sok
              /\ u29.sval = u29.n
              /\ u29.spos = Len(u29.bytes) + 1

U29SignedWitness ==
    /\ u29.pc = "done"
    /\ u29.n = MIN_29B_INT + 1
    /\ u29.sval = u29.n
    /\ Len(u29.bytes) = 4
    /\ u29.tail # <<>>

\* C4 (as claimed): for every n in [0, 2^29-1], encode_int(n) succeeds and
\* decode_int with signed=False over its bytes returns n.
U29UnsignedRoundTrip ==
    (u29.n >= 0 /\ u29.n <= 536870911) =>
        /\ u29.pc # "start" => u29.ok
        /\ u29.pc = "done" => (u29.uok /\ u29.uval = u29.n)

\* C5: the encoded form has 1, 2, 3 or 4 bytes by the size of the unsigned
\* value, every byte but the last has bit 7 set, and the last byte of the
\* 1- to 3-byte forms has bit 7 clear.
U29Minimal ==
    (u29.pc # "start" /\ u29.ok) =>
        LET u == IF u29.n >= 0 THEN u29.n ELSE u29.n + 536870912
            b == u29.bytes
            want == IF u <= 127 THEN 1
                    ELSE IF u <= 16383 THEN 2
                    ELSE IF u <= 2097151 THEN 3 ELSE 4
        IN  /\ Len(b) = want
            /\ \A i \in 1..(Len(b) - 1) : b[i] >= 128
            /\ Len(b) <= 3 => b[Len(b)] < 128

U29MinimalWitness ==
    /\ u29.pc = "encoded"
    /\ u29.n = 16384
    /\ Len(u29.bytes) = 3
    /\ u29.bytes[3] < 128

(***************************************************************************)
(* Specification SpecDef: class definitions built from aliases of every    *)
(* kind and filed in a Context, as Encoder.writeObject does for a class    *)
(* it meets first.                                                         *)
(***************************************************************************)
\* the aliases tried: external or not, dynamic or not, with static
\* attributes equal to the encodable properties or not
AliasInputs ==
    {MkAlias(K_STATIC, <<65>>, external, dynamic, FALSE, static, encodable) :
        external \in BOOLEAN, dynamic \in BOOLEAN,
        static \in {<<>>, <<S_x>>},
        encodable \in {<<>>, <<S_x>>, <<S_x, S_y>>}}

\* definition = ClassDefinition(alias)
\* self.context.addClass(definition, alias.klass)
DefineClass(alias) ==
    /\ ops < MaxOps
    /\ ctx' = CtxOf(addClass(EncState, ClassDefinition(alias), alias.klass))
    /\ last' = [LastBlank EXCEPT !.op = "define", !.pre = ctx]
    /\ ops' = ops + 1
    /\ UNCHANGED <<u29, heap, stream, opts>>

NextDef == \E alias \in AliasInputs : DefineClass(alias)

SpecDef == Init /\ [][NextDef]_vars

\* the definition the last operation built
Defined == ctx.class_ref[last.pre.class_idx]

\* C20 (as claimed): the encoding of a class definition built from an alias
\* is Static exactly when the alias is not dynamic and its static_attrs
\* equal its encodable_properties, External exactly when the alias is
\* external, Dynamic in every other case, and never Proxy.
EncodingOfAlias ==
    last.op = "define" =>
        /\ Defined.encoding = ENC_STATIC
             <=> (~Defined.alias.dynamic
                  /\ Defined.alias.static_attrs = Defined.alias.encodable_properties)
        /\ Defined.encoding = ENC_EXTERNAL <=> Defined.alias.external
        /\ Defined.encoding \in {ENC_STATIC, ENC_EXTERNAL, ENC_DYNAMIC}
        /\ Defined.encoding # ENC_PROXY

\* C20 (amended): the encoding is External exactly when the alias is
\* external; Static exactly when the alias is not external, not dynamic and
\* its static_attrs equal its encodable_properties; Dynamic in every other
\* case; never Proxy.
EncodingOfAliasExternalFirst ==
    last.op = "define" =>
        /\ Defined.encoding = ENC_EXTERNAL <=> Defined.alias.external
        /\ Defined.encoding = ENC_STATIC
             <=> (/\ ~Defined.alias.external
                  /\ ~Defined.alias.dynamic
                  /\ Defined.alias.static_attrs = Defined.alias.encodable_properties)
        /\ Defined.encoding = ENC_DYNAMIC
             <=> (/\ ~Defined.alias.external
                  /\ \/ Defined.alias.dynamic
                     \/ Defined.alias.static_attrs # Defined.alias.encodable_properties)
        /\ Defined.encoding # ENC_PROXY
        /\ Defined.attr_len = Len(Defined.alias.static_attrs)

\* an external alias that is not dynamic and whose static_attrs equal its
\* encodable_properties gives an External definition
EncodingWitness ==
    /\ last.op = "define"
    /\ last.pre.class_idx = 1
    /\ Defined.alias.external
    /\ ~Defined.alias.dynamic
    /\ Defined.alias.static_attrs = <<S_x>>
    /\ Defined.alias.encodable_properties = <<S_x>>
    /\ Defined.encoding = ENC_EXTERNAL

====
